---- MODULE Spec2Model ----
(***************************************************************************)
(* Model of the merge pipeline of scripts/merge_stock_data.py: one run of  *)
(* main() walks through fase_1_sanitasi, fase_2_discovery,                  *)
(* fase_3_rekonstruksi, fase_4_metadata and fase_5_packaging over a data    *)
(* directory.  Text (file names, time values, timestamps) is a sequence of  *)
(* one-character strings, so that glob matching, substring tests, the date  *)
(* regular expression and string comparison are computed as Python does.    *)
(***************************************************************************)
EXTENDS Integers, Sequences, FiniteSets, TLC

\* ------------------------------------------------------------------ bounds
MaxFiles == 3
MaxRuns == 2

\* -------------------------------------------------------------------- text
RECURSIVE Concat(_)
Concat(ss) == IF ss = <<>> THEN <<>> ELSE Head(ss) \o Concat(Tail(ss))

Digits == {"0", "1", "2", "3", "4", "5", "6", "7", "8", "9"}

\* Unicode code point of the characters the model uses (Python compares
\* str values code point by code point).
CodePoint(c) ==
    CASE c = " " -> 32  [] c = "(" -> 40  [] c = ")" -> 41  [] c = "+" -> 43
      [] c = "-" -> 45  [] c = "." -> 46
      [] c = "0" -> 48  [] c = "1" -> 49  [] c = "2" -> 50  [] c = "3" -> 51
      [] c = "4" -> 52  [] c = "5" -> 53  [] c = "6" -> 54  [] c = "7" -> 55
      [] c = "8" -> 56  [] c = "9" -> 57  [] c = ":" -> 58
      [] c = "A" -> 65  [] c = "B" -> 66  [] c = "C" -> 67  [] c = "D" -> 68
      [] c = "E" -> 69  [] c = "G" -> 71  [] c = "I" -> 73  [] c = "M" -> 77
      [] c = "N" -> 78  [] c = "O" -> 79  [] c = "R" -> 82  [] c = "T" -> 84
      [] c = "Z" -> 90  [] c = "_" -> 95
      [] c = "a" -> 97  [] c = "b" -> 98  [] c = "d" -> 100 [] c = "j" -> 106
      [] c = "k" -> 107 [] c = "m" -> 109 [] c = "n" -> 110 [] c = "o" -> 111
      [] c = "r" -> 114 [] c = "s" -> 115 [] c = "t" -> 116 [] c = "x" -> 120
      [] c = "y" -> 121
      [] OTHER -> 0

\* a < b for Python str values
RECURSIVE StrLess(_, _)
StrLess(a, b) ==
    IF b = <<>> THEN FALSE
    ELSE IF a = <<>> THEN TRUE
    ELSE IF Head(a) = Head(b) THEN StrLess(Tail(a), Tail(b))
    ELSE CodePoint(Head(a)) < CodePoint(Head(b))

StrLeq(a, b) == a = b \/ StrLess(a, b)

\* s.startswith(p)
StartsWith(s, p) == Len(p) <= Len(s) /\ SubSeq(s, 1, Len(p)) = p

\* s.endswith(p)
EndsWith(s, p) == Len(p) <= Len(s) /\ SubSeq(s, Len(s) - Len(p) + 1, Len(s)) = p

\* kw in s
Contains(s, kw) ==
    \E i \in 1..(Len(s) - Len(kw) + 1) : SubSeq(s, i, i + Len(kw) - 1) = kw

\* s.count(c) for a one-character c
RECURSIVE CountChar(_, _)
CountChar(s, c) ==
    IF s = <<>> THEN 0
    ELSE (IF Head(s) = c THEN 1 ELSE 0) + CountChar(Tail(s), c)

\* s.replace(c, r) for a one-character c
RECURSIVE Replace(_, _, _)
Replace(s, c, r) ==
    IF s = <<>> THEN <<>>
    ELSE (IF Head(s) = c THEN r ELSE <<Head(s)>>) \o Replace(Tail(s), c, r)

\* s.upper() on the letters the model uses
UpperChar(c) ==
    CASE c = "a" -> "A" [] c = "b" -> "B" [] c = "d" -> "D" [] c = "o" -> "O"
      [] c = "r" -> "R" [] c = "i" -> "I"
      [] OTHER -> c
Upper(s) == [i \in 1..Len(s) |-> UpperChar(s[i])]

\* str(n) for an int n >= 0
DigitChar(d) ==
    CASE d = 0 -> "0" [] d = 1 -> "1" [] d = 2 -> "2" [] d = 3 -> "3"
      [] d = 4 -> "4" [] d = 5 -> "5" [] d = 6 -> "6" [] d = 7 -> "7"
      [] d = 8 -> "8" [] OTHER -> "9"
RECURSIVE IntToStr(_)
IntToStr(n) ==
    IF n < 10 THEN <<DigitChar(n)>>
    ELSE IntToStr(n \div 10) \o <<DigitChar(n % 10)>>

\* fnmatch of a name against a pattern whose only metacharacter is *
RECURSIVE FnMatch(_, _)
FnMatch(name, pat) ==
    IF pat = <<>> THEN name = <<>>
    ELSE IF Head(pat) = "*"
         THEN FnMatch(name, Tail(pat))
              \/ (name # <<>> /\ FnMatch(Tail(name), pat))
    ELSE name # <<>> /\ Head(name) = Head(pat) /\ FnMatch(Tail(name), Tail(pat))

\* re.compile(r'(\d{4}-\d{2}-\d{2})'): does the pattern match at position i
DateAt(s, i) ==
    /\ i + 9 <= Len(s)
    /\ \A k \in {0, 1, 2, 3, 5, 6, 8, 9} : s[i + k] \in Digits
    /\ s[i + 4] = "-"
    /\ s[i + 7] = "-"

\* date_pattern.search(s): the position of the first match, 0 for no match
DateSearch(s) ==
    IF \E i \in 1..Len(s) : DateAt(s, i)
    THEN CHOOSE i \in 1..Len(s) : DateAt(s, i) /\ \A j \in 1..(i - 1) : ~DateAt(s, j)
    ELSE 0

\* ------------------------------------------------------------- JSON values
\* A JSON scalar as json.load returns it: None, a str or an int.  dict.get
\* of an absent key is None as well.
None == [k |-> "null", s |-> <<>>, n |-> 0]
Str(s) == [k |-> "str", s |-> s, n |-> 0]
Num(n) == [k |-> "num", s |-> <<>>, n |-> n]

\* bool(v)
Truthy(v) ==
    CASE v.k = "null" -> FALSE
      [] v.k = "str" -> v.s # <<>>
      [] OTHER -> v.n # 0

\* a or b
PyOr(a, b) == IF Truthy(a) THEN a ELSE b

\* str(v) of a truthy scalar
PyStr(v) == IF v.k = "str" THEN v.s ELSE IntToStr(v.n)

RecKeys == {"time", "t", "timestamp", "Time",
            "open", "o", "high", "h", "low", "l", "close", "c",
            "volume", "vol", "Volume", "v"}

\* One element of a candle array: a JSON object (get is its dict.get) or a
\* value that is not an object (obj = FALSE), on which .get raises.
Obj(f) == [obj |-> TRUE, get |-> [k \in RecKeys |-> IF k \in DOMAIN f THEN f[k] ELSE None]]
NotObj == [obj |-> FALSE, get |-> [k \in RecKeys |-> None]]

\* ------------------------------------------------------------ file content
ContainerKeys == {"candles", "data", "klines"}
Absent == [p |-> FALSE, a |-> <<>>]
Arr(a) == [p |-> TRUE, a |-> a]

NoMeta == [data_start |-> <<>>, data_end |-> <<>>, total_candles |-> 0,
           duration_days |-> 0, generated_at |-> 0, source_file_count |-> 0]
NoArt == [isArt |-> FALSE, ticker |-> <<>>, interval |-> <<>>,
          metadata |-> NoMeta, candles |-> <<>>]
NoCont == [k \in ContainerKeys |-> Absent]

\* a file that json.load rejects
Invalid == [kind |-> "invalid", arr |-> <<>>, cont |-> NoCont, art |-> NoArt]
\* a file holding a top-level JSON array
JList(a) == [kind |-> "list", arr |-> a, cont |-> NoCont, art |-> NoArt]
\* a file holding a JSON object with some of the container keys
JDict(f) == [kind |-> "dict", arr |-> <<>>,
             cont |-> [k \in ContainerKeys |-> IF k \in DOMAIN f THEN Arr(f[k]) ELSE Absent],
             art |-> NoArt]

\* the JSON object a canonical candle is stored as
CandleAsObj(c) ==
    Obj([timestamp |-> Str(c.timestamp), open |-> c.open, high |-> c.high,
         low |-> c.low, close |-> c.close, volume |-> c.volume])

\* ------------------------------------------------------------- file names
ADRO == <<"A", "D", "R", "O">>
I1m == <<"1", "m">>
I5m == <<"5", "m">>
D17 == <<"2", "0", "2", "5", "-", "1", "2", "-", "1", "7">>
D18 == <<"2", "0", "2", "5", "-", "1", "2", "-", "1", "8">>
D19 == <<"2", "0", "2", "5", "-", "1", "2", "-", "1", "9">>
DotJson == <<".", "j", "s", "o", "n">>
MERGED == <<"M", "E", "R", "G", "E", "D">>
COMBINED == <<"C", "O", "M", "B", "I", "N", "E", "D">>
days == <<"d", "a", "y", "s">>

\* TICKER_INTERVAL_ : the prefix of every file of one pair
Prefix(ticker, interval) == Concat(<<ticker, <<"_">>, interval, <<"_">>>>)
\* TICKER_INTERVAL_REST.json
FileName(ticker, interval, rest) == Concat(<<Prefix(ticker, interval), rest, DotJson>>)

\* ------------------------------------------------------------ the directory
\* The data directory is the sequence of its entries [name, content] in the
\* order os.scandir enumerates them; glob.glob returns matches in that order.
Names(d) == {d[i].name : i \in 1..Len(d)}

\* glob.glob(os.path.join(data_dir, pattern))
Glob(d, pattern) ==
    LET hit(e) == FnMatch(e.name, pattern) IN
    [i \in 1..Len(SelectSeq(d, hit)) |-> SelectSeq(d, hit)[i].name]

\* os.remove(name)
Remove(d, name) == LET keep(e) == e.name # name IN SelectSeq(d, keep)

RECURSIVE RemoveAll(_, _)
RemoveAll(d, names) ==
    IF names = <<>> THEN d ELSE RemoveAll(Remove(d, Head(names)), Tail(names))

\* open(name).read()
ContentOf(d, name) == (CHOOSE e \in {d[i] : i \in 1..Len(d)} : e.name = name).content

\* ------------------------------------------------------ FASE 1: sanitation
\* patterns that leave the interval out of the prefix
patterns_anyInterval(ticker, interval) ==
    << Concat(<<ticker, <<"_", "*">>, MERGED, <<"*">>, DotJson>>),
       Concat(<<ticker, <<"_", "*">>, COMBINED, <<"*">>, DotJson>>),
       Concat(<<ticker, <<"_", "*">>, days, <<"*">>, DotJson>>) >>

\* the patterns without the one for MERGED
patterns_noMerged(ticker, interval) ==
    << Concat(<<Prefix(ticker, interval), <<"*">>, COMBINED, <<"*">>, DotJson>>),
       Concat(<<Prefix(ticker, interval), <<"*">>, days, <<"*">>, DotJson>>) >>

\* one pattern for every file of the pair
patterns_wholePair(ticker, interval) ==
    << Concat(<<Prefix(ticker, interval), <<"*">>, DotJson>>) >>

patterns(ticker, interval) ==
    << Concat(<<Prefix(ticker, interval), <<"*">>, MERGED, <<"*">>, DotJson>>),
       Concat(<<Prefix(ticker, interval), <<"*">>, COMBINED, <<"*">>, DotJson>>),
       Concat(<<Prefix(ticker, interval), <<"*">>, days, <<"*">>, DotJson>>) >>

\* for pattern in patterns: glob, then os.remove of every match; the
\* result is the directory left and the names deleted, in deletion order
RECURSIVE SanitasiLoop(_, _, _)
SanitasiLoop(d, pats, deleted) ==
    IF pats = <<>> THEN [dir |-> d, deleted |-> deleted]
    ELSE LET files_to_delete == Glob(d, Head(pats)) IN
         SanitasiLoop(RemoveAll(d, files_to_delete), Tail(pats),
                      deleted \o files_to_delete)

fase_1_sanitasi(ticker, interval, d) ==
    SanitasiLoop(d, patterns(ticker, interval), <<>>)

\* ------------------------------------------------------- FASE 2: discovery
exclude_keywords == {MERGED, COMBINED, days}

\* raw_files: the glob matches that carry no exclude keyword
raw_files(ticker, interval, d) ==
    LET all_files == Glob(d, Concat(<<Prefix(ticker, interval), <<"*">>, DotJson>>))
        raw(f) == ~\E kw \in exclude_keywords : Contains(f, kw)
    IN SelectSeq(all_files, raw)

\* match.group(1) of a name the date pattern matches
DateOf(name) == SubSeq(name, DateSearch(name), DateSearch(name) + 9)

\* the loop that pairs each raw file with its date and drops the others
RECURSIVE PairUp(_)
PairUp(files) ==
    IF files = <<>> THEN <<>>
    ELSE (IF DateSearch(Head(files)) # 0
          THEN << <<Head(files), DateOf(Head(files))>> >>
          ELSE <<>>) \o PairUp(Tail(files))

\* list.sort(key=lambda x: x[1]): a stable sort, ascending by the date
RECURSIVE InsertByDate(_, _)
InsertByDate(sorted, pair) ==
    IF sorted = <<>> THEN <<pair>>
    ELSE IF StrLess(pair[2], Head(sorted)[2]) THEN <<pair>> \o sorted
    ELSE <<Head(sorted)>> \o InsertByDate(Tail(sorted), pair)

\* the pairs left in enumeration order
SortByDate_unsorted(pairs) == pairs

RECURSIVE SortByDate(_)
SortByDate(pairs) ==
    IF pairs = <<>> THEN <<>>
    ELSE InsertByDate(SortByDate(SubSeq(pairs, 1, Len(pairs) - 1)), pairs[Len(pairs)])

\* the value fase_2_discovery returns when it does not exit
fase_2_discovery(ticker, interval, d) == SortByDate(PairUp(raw_files(ticker, interval, d)))

\* what fase_2_discovery prints about the files: a warning for each raw
\* file without a date token, then the sorted list
discovery_log(ticker, interval, d) ==
    LET raws == raw_files(ticker, interval, d)
        undated(f) == DateSearch(f) = 0
        skipped == SelectSeq(raws, undated)
        listed == fase_2_discovery(ticker, interval, d)
    IN [p \in 1..Len(skipped) |-> [kind |-> "no_date", name |-> skipped[p], n |-> 0]]
       \o [p \in 1..Len(listed) |-> [kind |-> "listed", name |-> listed[p][1], n |-> 0]]

\* -------------------------------------------------- FASE 3: reconstruction
\* the time value looked up under time and t only
time_value_twoKeys(candle) == PyOr(candle.get["time"], candle.get["t"])

\* time_value of one record
time_value(candle) ==
    PyOr(PyOr(PyOr(candle.get["time"], candle.get["t"]), candle.get["timestamp"]),
         candle.get["Time"])

\* the seconds appended to whatever has fewer than two colons
full_timestamp_padAll(tv, date_str) ==
    IF tv.k = "str" /\ Contains(tv.s, <<"T">>)
    THEN tv.s
    ELSE LET time_str == PyStr(tv)
             padded == IF CountChar(time_str, ":") < 2
                       THEN time_str \o <<":", "0", "0">>
                       ELSE time_str
         IN Concat(<<date_str, <<"T">>, padded, <<"Z">>>>)

\* full_timestamp of a record with a truthy time value
full_timestamp(tv, date_str) ==
    IF tv.k = "str" /\ Contains(tv.s, <<"T">>)
    THEN tv.s
    ELSE LET time_str == PyStr(tv)
             padded == IF CountChar(time_str, ":") = 1
                       THEN time_str \o <<":", "0", "0">>
                       ELSE time_str
         IN Concat(<<date_str, <<"T">>, padded, <<"Z">>>>)

\* volume of one record
volume(candle) ==
    PyOr(PyOr(PyOr(PyOr(candle.get["volume"], candle.get["vol"]), candle.get["Volume"]),
              candle.get["v"]), Num(0))

\* close resolved from the single-letter key first
fixed_candle_shortFirst(candle, date_str) ==
    [timestamp |-> full_timestamp(time_value(candle), date_str),
     open |-> PyOr(candle.get["open"], candle.get["o"]),
     high |-> PyOr(candle.get["high"], candle.get["h"]),
     low |-> PyOr(candle.get["low"], candle.get["l"]),
     close |-> PyOr(candle.get["c"], candle.get["close"]),
     volume |-> volume(candle)]

fixed_candle(candle, date_str) ==
    [timestamp |-> full_timestamp(time_value(candle), date_str),
     open |-> PyOr(candle.get["open"], candle.get["o"]),
     high |-> PyOr(candle.get["high"], candle.get["h"]),
     low |-> PyOr(candle.get["low"], candle.get["l"]),
     close |-> PyOr(candle.get["close"], candle.get["c"]),
     volume |-> volume(candle)]

\* the candle array taken from the first key that is present
candles_of_firstPresent(data) ==
    IF data.kind = "dict"
    THEN IF data.cont["candles"].p THEN data.cont["candles"].a
         ELSE IF data.cont["data"].p THEN data.cont["data"].a
         ELSE data.cont["klines"].a
    ELSE data.arr

\* candles of one parsed file: the top-level list, or the first truthy of
\* data.get('candles') or data.get('data') or data.get('klines')
candles_of(data) ==
    IF data.kind = "dict"
    THEN IF data.cont["candles"].a # <<>> THEN data.cont["candles"].a
         ELSE IF data.cont["data"].a # <<>> THEN data.cont["data"].a
         ELSE data.cont["klines"].a
    ELSE data.arr

\* the inner loop over the records of one file, appending to master; it
\* stops at the first record on which .get raises (the except clause then
\* moves on to the next file with master as it is)
RECURSIVE RecordLoop(_, _, _)
RecordLoop(master, recs, date_str) ==
    IF recs = <<>> THEN master
    ELSE IF ~Head(recs).obj THEN master
    ELSE IF ~Truthy(time_value(Head(recs))) THEN RecordLoop(master, Tail(recs), date_str)
    ELSE RecordLoop(Append(master, fixed_candle(Head(recs), date_str)), Tail(recs), date_str)

\* the outer loop over the (file, date) pairs
\* reconstruction that takes the files from the last one to the first
RECURSIVE fase_3_rekonstruksi_newestFirst(_, _)
fase_3_rekonstruksi_newestFirst(d, pairs) ==
    IF pairs = <<>> THEN <<>>
    ELSE LET before == fase_3_rekonstruksi_newestFirst(d, Tail(pairs))
             data == ContentOf(d, Head(pairs)[1])
         IN IF data.kind = "invalid" THEN before
            ELSE RecordLoop(before, candles_of(data), Head(pairs)[2])

RECURSIVE fase_3_rekonstruksi(_, _)
fase_3_rekonstruksi(d, pairs) ==
    IF pairs = <<>> THEN <<>>
    ELSE LET before == fase_3_rekonstruksi(d, SubSeq(pairs, 1, Len(pairs) - 1))
             last == pairs[Len(pairs)]
             data == ContentOf(d, last[1])
         IN IF data.kind = "invalid" THEN before
            ELSE RecordLoop(before, candles_of(data), last[2])

\* what fase_3_rekonstruksi prints at the end of a file: the warning of an
\* empty file, the error of the except clause, or the number of candles
\* reconstructed
file_log(name, data) ==
    LET recs == candles_of(data)
        timed(r) == Truthy(time_value(r))
    IN IF data.kind = "invalid" THEN [kind |-> "error", name |-> name, n |-> 0]
       ELSE IF recs = <<>> THEN [kind |-> "no_candles", name |-> name, n |-> 0]
       ELSE IF \E p \in 1..Len(recs) : ~recs[p].obj
            THEN [kind |-> "error", name |-> name, n |-> 0]
       ELSE [kind |-> "reconstructed", name |-> name, n |-> Len(SelectSeq(recs, timed))]

rekonstruksi_log(d, pairs) ==
    [p \in 1..Len(pairs) |-> file_log(pairs[p][1], ContentOf(d, pairs[p][1]))]

\* ------------------------------------------------------- FASE 4: metadata
DigitVal(c) == CodePoint(c) - 48
IsNum2(s, i) == i + 1 <= Len(s) /\ s[i] \in Digits /\ s[i + 1] \in Digits
Num2(s, i) == 10 * DigitVal(s[i]) + DigitVal(s[i + 1])

IsLeap(y) == (y % 4 = 0 /\ y % 100 # 0) \/ y % 400 = 0
DaysInMonth(y, m) ==
    IF m = 2 THEN (IF IsLeap(y) THEN 29 ELSE 28)
    ELSE IF m \in {4, 6, 9, 11} THEN 30 ELSE 31

\* the ordinal of a date of the proleptic Gregorian calendar, shifted so
\* that 1970-01-01 is day 0
DaysFromCivil(y, m, d) ==
    LET yy == IF m <= 2 THEN y - 1 ELSE y
        era == yy \div 400
        yoe == yy - era * 400
        mp == IF m > 2 THEN m - 3 ELSE m + 9
        doy == (153 * mp + 2) \div 5 + d - 1
        doe == yoe * 365 + yoe \div 4 - yoe \div 100 + doy
    IN era * 146097 + doe - 719468

\* HH, HH:MM or HH:MM:SS with fields in range; the seconds since midnight,
\* -1 when the text is none of these
ClockSeconds(s) ==
    LET hOk == IsNum2(s, 1) /\ Num2(s, 1) <= 23
        mOk == Len(s) >= 5 /\ s[3] = ":" /\ IsNum2(s, 4) /\ Num2(s, 4) <= 59
        sOk == Len(s) = 8 /\ s[6] = ":" /\ IsNum2(s, 7) /\ Num2(s, 7) <= 59
    IN IF Len(s) = 2 /\ hOk THEN 3600 * Num2(s, 1)
       ELSE IF Len(s) = 5 /\ hOk /\ mOk THEN 3600 * Num2(s, 1) + 60 * Num2(s, 4)
       ELSE IF hOk /\ mOk /\ sOk
            THEN 3600 * Num2(s, 1) + 60 * Num2(s, 4) + Num2(s, 7)
       ELSE -1

\* position of the first + or - of s, 0 when there is none
SignPos(s) ==
    IF \E i \in 1..Len(s) : s[i] \in {"+", "-"}
    THEN CHOOSE i \in 1..Len(s) : s[i] \in {"+", "-"} /\ \A j \in 1..(i - 1) : s[j] \notin {"+", "-"}
    ELSE 0

ParseError == [ok |-> FALSE, aware |-> FALSE, secs |-> 0]

\* datetime.fromisoformat(s) for the extended format
\* YYYY-MM-DD[*HH[:MM[:SS]][(+|-)HH:MM]]: whether it parses, whether the
\* result carries a UTC offset, and its seconds since 1970-01-01T00:00:00
\* (of UTC when aware, of its own wall clock when naive)
fromisoformat(s) ==
    LET dateOk == /\ Len(s) >= 10 /\ DateAt(s, 1)
                  /\ Num2(s, 6) \in 1..12
                  /\ 100 * Num2(s, 1) + Num2(s, 3) >= 1
                  /\ Num2(s, 9) \in 1..DaysInMonth(100 * Num2(s, 1) + Num2(s, 3), Num2(s, 6))
        dayNo == DaysFromCivil(100 * Num2(s, 1) + Num2(s, 3), Num2(s, 6), Num2(s, 9))
        rest == SubSeq(s, 12, Len(s))
        sp == SignPos(rest)
        clock == IF sp = 0 THEN rest ELSE SubSeq(rest, 1, sp - 1)
        tz == IF sp = 0 THEN <<>> ELSE SubSeq(rest, sp + 1, Len(rest))
        tzOk == sp = 0 \/ (Len(tz) = 5 /\ ClockSeconds(tz) >= 0)
        offset == IF sp = 0 THEN 0
                  ELSE IF rest[sp] = "+" THEN ClockSeconds(tz) ELSE 0 - ClockSeconds(tz)
    IN IF ~dateOk THEN ParseError
       ELSE IF Len(s) = 10 THEN [ok |-> TRUE, aware |-> FALSE, secs |-> 86400 * dayNo]
       ELSE IF Len(s) = 11 \/ ClockSeconds(clock) < 0 \/ ~tzOk THEN ParseError
       ELSE [ok |-> TRUE, aware |-> sp # 0,
             secs |-> 86400 * dayNo + ClockSeconds(clock) - offset]

\* (end_dt - start_dt).days: timedelta normalises to 0 <= seconds < 86400,
\* so days is the floor of the difference in days
timedelta_days(start_dt, end_dt) == (end_dt.secs - start_dt.secs) \div 86400

\* what fase_4_metadata does with the master sequence: "exit" for the
\* sys.exit(1) on an empty sequence, "raise" when fromisoformat raises
\* ValueError or the subtraction of a naive and an aware datetime raises
\* TypeError, "ok" with the metadata otherwise
fase_4_metadata(candles, clock) ==
    IF Len(candles) = 0 THEN [status |-> "exit", metadata |-> NoMeta]
    ELSE LET start_timestamp == candles[1].timestamp
             end_timestamp == candles[Len(candles)].timestamp
             start_dt == fromisoformat(Replace(start_timestamp, "Z", <<"+", "0", "0", ":", "0", "0">>))
             end_dt == fromisoformat(Replace(end_timestamp, "Z", <<"+", "0", "0", ":", "0", "0">>))
         IN IF ~start_dt.ok \/ ~end_dt.ok \/ start_dt.aware # end_dt.aware
            THEN [status |-> "raise", metadata |-> NoMeta]
            ELSE [status |-> "ok",
                  metadata |-> [data_start |-> start_timestamp,
                                data_end |-> end_timestamp,
                                total_candles |-> Len(candles),
                                duration_days |-> timedelta_days(start_dt, end_dt),
                                generated_at |-> clock,
                                source_file_count |-> 0]]

\* ------------------------------------------------------ FASE 5: packaging
\* the artifact named like the fragment of a day
output_filename_dated(ticker, interval) == FileName(ticker, interval, D19)

output_filename(ticker, interval) == FileName(ticker, interval, MERGED)

\* the document with the two counters of the metadata taken from each other
output_data_countsSwapped(ticker, interval, meta, candles, file_count) ==
    [kind |-> "dict", arr |-> <<>>,
     cont |-> [k \in ContainerKeys |->
                 IF k = "candles"
                 THEN Arr([i \in 1..Len(candles) |-> CandleAsObj(candles[i])])
                 ELSE Absent],
     art |-> [isArt |-> TRUE, ticker |-> ticker, interval |-> interval,
              metadata |-> [meta EXCEPT !.source_file_count = meta.total_candles,
                                        !.total_candles = file_count],
              candles |-> candles]]

\* the JSON document fase_5_packaging dumps
output_data(ticker, interval, meta, candles, file_count) ==
    [kind |-> "dict", arr |-> <<>>,
     cont |-> [k \in ContainerKeys |->
                 IF k = "candles"
                 THEN Arr([i \in 1..Len(candles) |-> CandleAsObj(candles[i])])
                 ELSE Absent],
     art |-> [isArt |-> TRUE, ticker |-> ticker, interval |-> interval,
              metadata |-> [meta EXCEPT !.source_file_count = file_count],
              candles |-> candles]]

\* open(name, 'w') and dump: an existing entry keeps its place in the
\* directory, a new entry is enumerated after the entries already there
WriteFile(d, name, content) ==
    IF name \in Names(d)
    THEN [i \in 1..Len(d) |-> IF d[i].name = name
                              THEN [name |-> name, content |-> content] ELSE d[i]]
    ELSE Append(d, [name |-> name, content |-> content])

\* ------------------------------------------------- directories of the model
\* the names a data directory of the model can hold
N_A1_17 == FileName(ADRO, I1m, D17)
N_A1_18 == FileName(ADRO, I1m, D18)
N_A1_19 == FileName(ADRO, I1m, D19)
N_A1_19b == FileName(ADRO, I1m, D19 \o <<"_", "b">>)
N_A1_notes == FileName(ADRO, I1m, <<"n", "o", "t", "e", "s">>)
N_A1_MERGED == FileName(ADRO, I1m, MERGED)
N_A1_COMBINED == FileName(ADRO, I1m, COMBINED)
N_A1_2days == FileName(ADRO, I1m, Concat(<<<<"2">>, days, <<"_", "(">>, D18, <<"_">>, D19, <<")">>>>))
N_A5_MERGED == FileName(ADRO, I5m, MERGED)
N_A5_19 == FileName(ADRO, I5m, D19)

RawNames == {N_A1_17, N_A1_18, N_A1_19, N_A1_19b, N_A1_notes}
\* the files earlier consolidations can have left behind
Leftovers == {<<>>, <<N_A1_MERGED>>,
              <<N_A5_MERGED, N_A5_19, N_A1_2days, N_A1_COMBINED, N_A1_MERGED>>}

\* time values found in fragment files
T0930 == <<"0", "9", ":", "3", "0">>
T0931 == <<"0", "9", ":", "3", "1">>
T093045 == <<"0", "9", ":", "3", "0", ":", "4", "5">>
T1000 == <<"1", "0", ":", "0", "0">>
TFull18 == <<"2", "0", "2", "5", "-", "1", "2", "-", "1", "8", "T", "0", "9", ":", "3", "1", ":", "0", "0", "+", "0", "7", ":", "0", "0">>
TNaive20 == <<"2", "0", "2", "5", "-", "1", "2", "-", "2", "0", "T", "0", "9", ":", "3", "1", ":", "0", "0">>
TSpace19 == <<"2", "0", "2", "5", "-", "1", "2", "-", "1", "9", " ", "0", "9", ":", "3", "1", ":", "0", "0">>
TStale == <<"2", "0", "2", "5", "-", "1", "2", "-", "1", "7", "T", "0", "9", ":", "0", "0", ":", "0", "0", "Z">>

\* a well-formed record of the harvesters: clock time and long-form keys
Bar(t, px) == Obj([time |-> Str(t), open |-> Num(px), high |-> Num(px + 2),
                   low |-> Num(px - 1), close |-> Num(px + 1), volume |-> Num(5)])

rA == Obj([time |-> Str(T0931), open |-> Num(10), high |-> Num(12), low |-> Num(9),
           close |-> Num(100), c |-> Num(200), volume |-> Num(5)])
rB == Obj([t |-> Str(T093045), o |-> Num(10), h |-> Num(12), l |-> Num(9),
           c |-> Num(200), v |-> Num(7)])
rC == Obj([timestamp |-> Str(TFull18), open |-> Num(10), high |-> Num(12),
           low |-> Num(9), close |-> Num(0), c |-> Num(200)])
rD == Obj([open |-> Num(10), high |-> Num(12), low |-> Num(9), close |-> Num(11)])
rF == Obj([time |-> Num(931), open |-> Num(10), high |-> Num(12), low |-> Num(9),
           close |-> Num(11), vol |-> Num(3)])
rG == Obj([Time |-> Str(TSpace19), open |-> Num(10), high |-> Num(12),
           low |-> Num(9), close |-> Num(11)])
rH == Obj([time |-> Str(<<>>), Time |-> Str(TNaive20), open |-> Num(10),
           high |-> Num(12), low |-> Num(9), close |-> Num(11), Volume |-> Num(4)])
\* volumes that are not counts: a negative number after a zero, a string
rV == Obj([time |-> Str(T1000), open |-> Num(10), high |-> Num(12), low |-> Num(9),
           close |-> Num(11), volume |-> Num(0), vol |-> Num(0 - 5)])
rW == Obj([time |-> Str(T0931), open |-> Num(10), high |-> Num(12), low |-> Num(9),
           close |-> Num(11), v |-> Str(<<"1", "2", "0", "0">>)])
RecordPool == {rA, rB, rC, rD, rF, rG, rH, NotObj}

\* records that vary one field at a time
TimeKeyOrder == <<"time", "t", "timestamp", "Time">>
TimeKeys == {"time", "t", "timestamp", "Time"}
TimeValues == {Str(T0931), Str(T093045), Str(TFull18), Str(TSpace19), Str(TNaive20),
               Str(<<>>), Num(931), Num(0), None}
OhlcKeys == {<<"open", "o">>, <<"high", "h">>, <<"low", "l">>, <<"close", "c">>}
RichRecords ==
    {Obj((TimeKeyOrder[p] :> v1) @@ (TimeKeyOrder[q] :> v2) @@ [close |-> Num(11)]) :
        <<p, q>> \in {pq \in (1..4) \X (1..4) : pq[1] < pq[2]},
        <<v1, v2>> \in {Str(T0931), Str(<<>>), None} \X TimeValues}
    \cup {Obj((kk[1] :> long) @@ (kk[2] :> short) @@ [time |-> Str(T0931)]) :
            kk \in OhlcKeys, long \in {None, Num(0), Num(100)},
            short \in {None, Num(0), Num(200)}}

\* an artifact left behind by an earlier consolidation
StaleCandle == [timestamp |-> TStale, open |-> Num(1), high |-> Num(1),
                low |-> Num(1), close |-> Num(1), volume |-> Num(1)]

StaleArtifact(ticker, interval) ==
    output_data(ticker, interval,
                [data_start |-> TStale, data_end |-> TStale, total_candles |-> 1,
                 duration_days |-> 0, generated_at |-> 0, source_file_count |-> 1],
                <<StaleCandle>>, 1)

\* sequences without repetition, of length n, over the set S
InjSeqs(S, n) == {q \in [1..n -> S] : \A i, j \in 1..n : q[i] = q[j] => i = j}
\* sequences of length at most n over the set S
SeqsUpTo(S, n) == UNION {[1..m -> S] : m \in 0..n}

\* what each file of a directory of varied names holds
DefaultContent(name) ==
    CASE name = N_A1_17 -> JList(<<Bar(T0930, 8), Bar(T1000, 9)>>)
      [] name = N_A1_18 -> JList(<<Bar(T0930, 10), Bar(T0931, 11)>>)
      [] name = N_A1_19 -> JList(<<Bar(T0931, 12), Bar(T1000, 13)>>)
      [] name = N_A1_19b -> JList(<<Bar(T1000, 14)>>)
      [] name = N_A1_notes -> JList(<<Bar(T0930, 15)>>)
      [] name = N_A5_MERGED -> StaleArtifact(ADRO, I5m)
      [] name = N_A5_19 -> JList(<<Bar(T0930, 16)>>)
      [] OTHER -> StaleArtifact(ADRO, I1m)

\* directories that vary the raw files present, their enumeration order
\* and the leftovers next to them
ShapeDirs ==
    {[i \in 1..Len(q \o l) |-> [name |-> (q \o l)[i], content |-> DefaultContent((q \o l)[i])]] :
        q \in UNION {InjSeqs(RawNames, n) : n \in 0..MaxFiles}, l \in Leftovers}

\* directories that vary what two fragment files hold
MixNames == {N_A1_18, N_A1_19}
MixContents == {Invalid, JList(<<>>), JList(<<rA>>), JList(<<rD>>), JList(<<rG>>),
                JList(<<rC, rB>>)}
MixDirs ==
    {[i \in 1..Len(q) |-> [name |-> q[i], content |-> cs[i]]] :
        <<q, cs>> \in InjSeqs(MixNames, 2) \X [1..2 -> MixContents]}

\* directories that vary the records of a single fragment file
MaxRecs == 2
RecordContents ==
    {JList(a) : a \in SeqsUpTo(RecordPool, MaxRecs)}
    \cup {JList(<<r>>) : r \in RichRecords}
    \cup {Invalid, JDict(<<>>), JDict([candles |-> <<rA>>, data |-> <<rB>>]),
          JDict([candles |-> <<>>, data |-> <<rB>>]),
          JDict([data |-> <<rA, rB>>, klines |-> <<rC>>]),
          JDict([klines |-> <<rB, rA>>]), JList(<<rV, rW>>)}
RecordDirs == {<<[name |-> N_A1_19, content |-> c]>> : c \in RecordContents}

Directories == ShapeDirs \cup MixDirs \cup RecordDirs

\* the command lines of the model: TICKER INTERVAL
adro == <<"a", "d", "r", "o">>
ArgPairs == {<<adro, I1m>>, <<ADRO, I5m>>}

\* ------------------------------------------------------------------- state
VARIABLES
    dirExists,        \* os.path.exists(data_dir)
    dir,              \* the entries of data_dir in enumeration order
    pc,               \* where main() stands
    ticker, interval, \* main's arguments, ticker upper-cased
    deleted,          \* the names fase_1_sanitasi removed, in order
    file_date_pairs,  \* what fase_2_discovery returned
    master_candles,   \* what fase_3_rekonstruksi returned
    metadata,         \* what fase_4_metadata returned
    output_path,      \* the file fase_5_packaging wrote, <<>> for none
    output,           \* the document it wrote
    exit_code,        \* the exit code of the run, -1 while it runs
    exit_at,          \* the place the run ended at
    clock,            \* the wall clock, one tick per run
    runs,             \* the number of runs started
    dir0,             \* the directory as the current run found it
    prev,             \* the outcome of the run before the current one
    log,              \* what FASE 2 and FASE 3 of the current run printed
    bpc,              \* where main() of batch_merge_all.py stands, "off" for no batch
    data_map,         \* the combinations scan_available_data returned, in loop order
    next_item,        \* the position of the loop of main in data_map
    success_count,
    failed_count,
    failed_items,
    procs,            \* the subprocesses started so far, each with its state
    batch_exit,       \* the exit code of the batch, -1 while it runs
    mpc,              \* where main() of merge-and-update-data.py stands, "off" for none
    m_data_map,       \* what scan_existing_files returned, in the order of its keys
    m_next,           \* the position of the loop of its main in m_data_map
    merged_data,      \* what the last merge_files returned
    merged_count,
    m_runs,           \* the number of times merge-and-update-data.py was started
    hpc,              \* where process_ticker of harvest_stocks.py stands, "off" for none
    hfile,            \* TICKER_full_30days.json: whether it exists, and its array
    hnow,             \* datetime.now() of the current run, in minutes
    h_runs,           \* the number of process_ticker calls so far
    existing,         \* what load_existing_data returned (ok = FALSE for None)
    df,               \* the DataFrame the download returned, as its rows
    h_before,         \* the file as the current call found it
    h_mode,           \* the branch the current call took
    vpc,              \* where main() of alpha_vantage_harvester.py stands, "off" for none
    v_test,           \* args.test
    v_tickers,        \* the number of tickers of the run
    v_ticker,         \* the position of the loop of main in the tickers
    v_month,          \* the month of the slice download_ticker is at
    retry_count,      \* retry_count of the _fetch_slice call in progress
    request_count,    \* self.request_count
    v_response,       \* the answer to the last request
    v_parsed,         \* the slices of the current ticker parsed into all_candles
    v_successful,     \* successful and failed of main
    v_failed,
    v_sent,           \* an HTTP request has been sent
    v_slept,          \* the seconds of the last sleep since the last request, 0 for none
    v_unslept,        \* a request was sent with no sleep since the request before it
    v_tries           \* the requests sent for the current slice

batch == <<bpc, data_map, next_item, success_count, failed_count, failed_items,
           procs, batch_exit>>

\* the state of merge-and-update-data.py, of harvest_stocks.py and of
\* alpha_vantage_harvester.py
alt == <<mpc, m_data_map, m_next, merged_data, merged_count, m_runs>>
harvest == <<hpc, hfile, hnow, h_runs, existing, df, h_before, h_mode>>
alpha == <<vpc, v_test, v_tickers, v_ticker, v_month, retry_count, request_count,
           v_response, v_parsed, v_successful, v_failed, v_sent, v_slept, v_unslept,
           v_tries>>
tools == <<alt, harvest, alpha>>

vars == <<dirExists, dir, pc, ticker, interval, deleted, file_date_pairs,
          master_candles, metadata, output_path, output, exit_code, exit_at,
          clock, runs, dir0, prev, log, batch, tools>>

NoPrev == [ran |-> FALSE, ticker |-> <<>>, interval |-> <<>>, exit_code |-> -1,
           output_path |-> <<>>, output |-> NoArt, dir0 |-> <<>>]

\* no process has run yet
Fresh ==
    /\ pc = "idle"
    /\ ticker = <<>> /\ interval = <<>>
    /\ deleted = <<>>
    /\ file_date_pairs = <<>>
    /\ master_candles = <<>>
    /\ metadata = NoMeta
    /\ output_path = <<>>
    /\ output = NoArt
    /\ exit_code = -1
    /\ exit_at = "none"
    /\ clock = 0
    /\ runs = 0
    /\ dir0 = <<>>
    /\ prev = NoPrev
    /\ log = <<>>

\* the counters of main() of batch_merge_all.py before its loop
NoBatch ==
    /\ data_map = <<>>
    /\ next_item = 1
    /\ success_count = 0
    /\ failed_count = 0
    /\ failed_items = <<>>
    /\ procs = <<>>
    /\ batch_exit = -1

NoMerged == [ticker |-> <<>>, interval |-> <<>>, duration |-> <<>>,
             start_date |-> <<>>, end_date |-> <<>>, total_candles |-> 0,
             source_files |-> 0, candles |-> <<>>]

\* merge-and-update-data.py has not been started
NoAlt ==
    /\ m_data_map = <<>>
    /\ m_next = 1
    /\ merged_data = NoMerged
    /\ merged_count = 0
    /\ m_runs = 0

\* no harvester has been started
NoFile == [exists |-> FALSE, data |-> <<>>]
NoExisting == [ok |-> FALSE, data |-> <<>>, last_timestamp |-> 0]
NoHarvest ==
    /\ hfile = NoFile
    /\ hnow = 0
    /\ h_runs = 0
    /\ existing = NoExisting
    /\ df = <<>>
    /\ h_before = NoFile
    /\ h_mode = "none"
NoAlpha ==
    /\ v_test = FALSE
    /\ v_tickers = 0
    /\ v_ticker = 1
    /\ v_month = 1
    /\ retry_count = 0
    /\ request_count = 0
    /\ v_response = "none"
    /\ v_parsed = 0
    /\ v_successful = 0
    /\ v_failed = 0
    /\ v_sent = FALSE
    /\ v_slept = 0
    /\ v_unslept = FALSE
    /\ v_tries = 0

Init ==
    /\ \/ dirExists = TRUE /\ dir \in Directories
       \/ dirExists = FALSE /\ dir = <<>>
    /\ Fresh
    /\ bpc = "off"
    /\ NoBatch
    /\ mpc = "off" /\ NoAlt
    /\ hpc = "off" /\ NoHarvest
    /\ vpc = "off" /\ NoAlpha

\* sys.exit(code) at the place named
Exit(code, place) ==
    /\ pc' = "done"
    /\ exit_code' = code
    /\ exit_at' = place

\* main() of merge_stock_data.py up to FASE 1, in a new process
main_run(argTicker, argInterval) ==
    /\ runs' = runs + 1
    /\ clock' = clock + 1
    /\ prev' = IF pc = "done"
               THEN [ran |-> TRUE, ticker |-> ticker, interval |-> interval,
                     exit_code |-> exit_code, output_path |-> output_path,
                     output |-> output, dir0 |-> dir0]
               ELSE NoPrev
    /\ ticker' = Upper(argTicker)
    /\ interval' = argInterval
    /\ dir0' = dir
    /\ log' = <<>>
    /\ deleted' = <<>>
    /\ file_date_pairs' = <<>>
    /\ master_candles' = <<>>
    /\ metadata' = NoMeta
    /\ output_path' = <<>>
    /\ output' = NoArt
    /\ IF ~dirExists
       THEN Exit(1, "main")
       ELSE pc' = "fase_1" /\ exit_code' = -1 /\ exit_at' = "none"
    /\ UNCHANGED <<dirExists, dir>>

\* python merge_stock_data.py TICKER INTERVAL DATA_DIR, up to FASE 1; the
\* command is run on a directory nobody has run it on yet, or once more
\* for the same pair right after a run has ended
main(argTicker, argInterval) ==
    /\ bpc = "off"
    /\ \/ pc = "idle"
       \/ pc = "done" /\ Upper(argTicker) = ticker /\ argInterval = interval
    /\ runs < MaxRuns
    /\ main_run(argTicker, argInterval)
    /\ UNCHANGED <<batch, tools>>

Fase1 ==
    /\ pc = "fase_1"
    /\ LET r == fase_1_sanitasi(ticker, interval, dir) IN
         /\ dir' = r.dir
         /\ deleted' = r.deleted
    /\ pc' = "fase_2"
    /\ UNCHANGED <<dirExists, ticker, interval, file_date_pairs, master_candles,
                   metadata, output_path, output, exit_code, exit_at, clock, runs,
                   dir0, prev, log>>
    /\ UNCHANGED <<batch, tools>>

\* discovery that returns to main with no raw file found
Fase2_noExit ==
    /\ pc = "fase_2"
    /\ file_date_pairs' = fase_2_discovery(ticker, interval, dir)
    /\ pc' = "fase_3"
    /\ UNCHANGED <<exit_code, exit_at>>
    /\ log' = discovery_log(ticker, interval, dir)
    /\ UNCHANGED <<dirExists, dir, ticker, interval, deleted, master_candles,
                   metadata, output_path, output, clock, runs, dir0, prev>>
    /\ UNCHANGED <<batch, tools>>

Fase2 ==
    /\ pc = "fase_2"
    /\ IF Len(raw_files(ticker, interval, dir)) = 0
       THEN Exit(1, "fase_2_discovery") /\ UNCHANGED file_date_pairs
       ELSE /\ file_date_pairs' = fase_2_discovery(ticker, interval, dir)
            /\ pc' = "fase_3"
            /\ UNCHANGED <<exit_code, exit_at>>
    /\ log' = discovery_log(ticker, interval, dir)
    /\ UNCHANGED <<dirExists, dir, ticker, interval, deleted, master_candles,
                   metadata, output_path, output, clock, runs, dir0, prev>>
    /\ UNCHANGED <<batch, tools>>

Fase3 ==
    /\ pc = "fase_3"
    /\ master_candles' = fase_3_rekonstruksi(dir, file_date_pairs)
    /\ log' = log \o rekonstruksi_log(dir, file_date_pairs)
    /\ pc' = "fase_4"
    /\ UNCHANGED <<dirExists, dir, ticker, interval, deleted, file_date_pairs,
                   metadata, output_path, output, exit_code, exit_at, clock, runs,
                   dir0, prev>>
    /\ UNCHANGED <<batch, tools>>

\* the empty-sequence guard leaving with sys.exit(0)
Fase4_exitZero ==
    /\ pc = "fase_4"
    /\ LET r == fase_4_metadata(master_candles, clock) IN
         CASE r.status = "exit" -> Exit(0, "fase_4_metadata") /\ UNCHANGED metadata
           [] r.status = "raise" -> Exit(1, "traceback") /\ UNCHANGED metadata
           [] OTHER -> /\ metadata' = r.metadata
                       /\ pc' = "fase_5"
                       /\ UNCHANGED <<exit_code, exit_at>>
    /\ UNCHANGED <<dirExists, dir, ticker, interval, deleted, file_date_pairs,
                   master_candles, output_path, output, clock, runs, dir0, prev, log>>
    /\ UNCHANGED <<batch, tools>>

Fase4 ==
    /\ pc = "fase_4"
    /\ LET r == fase_4_metadata(master_candles, clock) IN
         CASE r.status = "exit" -> Exit(1, "fase_4_metadata") /\ UNCHANGED metadata
           [] r.status = "raise" -> Exit(1, "traceback") /\ UNCHANGED metadata
           [] OTHER -> /\ metadata' = r.metadata
                       /\ pc' = "fase_5"
                       /\ UNCHANGED <<exit_code, exit_at>>
    /\ UNCHANGED <<dirExists, dir, ticker, interval, deleted, file_date_pairs,
                   master_candles, output_path, output, clock, runs, dir0, prev, log>>
    /\ UNCHANGED <<batch, tools>>

\* packaging told the number of raw files found instead of the number queued
Fase5_countRaw ==
    /\ pc = "fase_5"
    /\ LET doc == output_data(ticker, interval, metadata, master_candles,
                              Len(raw_files(ticker, interval, dir)))
       IN /\ dir' = WriteFile(dir, output_filename(ticker, interval), doc)
          /\ output' = doc.art
    /\ output_path' = output_filename(ticker, interval)
    /\ Exit(0, "end")
    /\ UNCHANGED <<dirExists, ticker, interval, deleted, file_date_pairs,
                   master_candles, metadata, clock, runs, dir0, prev, log>>
    /\ UNCHANGED <<batch, tools>>

\* FASE 5 and the return of main
Fase5 ==
    /\ pc = "fase_5"
    /\ LET doc == output_data(ticker, interval, metadata, master_candles,
                              Len(file_date_pairs))
       IN /\ dir' = WriteFile(dir, output_filename(ticker, interval), doc)
          /\ output' = doc.art
    /\ output_path' = output_filename(ticker, interval)
    /\ Exit(0, "end")
    /\ UNCHANGED <<dirExists, ticker, interval, deleted, file_date_pairs,
                   master_candles, metadata, clock, runs, dir0, prev, log>>
    /\ UNCHANGED <<batch, tools>>

Next ==
    \/ \E a \in ArgPairs : main(a[1], a[2])
    \/ Fase1
    \/ Fase2
    \/ Fase3
    \/ Fase4
    \/ Fase5

Spec == Init /\ [][Next]_vars

\* ---------------------------------------------------- batch_merge_all.py
AZ == {"A", "B", "C", "D", "E", "F", "G", "H", "I", "J", "K", "L", "M", "N",
       "O", "P", "Q", "R", "S", "T", "U", "V", "W", "X", "Y", "Z"}

batch_exclude_keywords == {MERGED, COMBINED, days, <<"_", "f", "u", "l", "l", "_">>}

\* the position of the first "_" of s at or after i, 0 when there is none
Underscore(s, i) ==
    IF \E p \in i..Len(s) : s[p] = "_"
    THEN CHOOSE p \in i..Len(s) : s[p] = "_" /\ \A q \in i..(p - 1) : s[q] # "_"
    ELSE 0

\* a pattern that stops after the second underscore: ^([A-Z]+)_(\d+[mh])_
file_pattern_match_prefixOnly(basename) ==
    LET p1 == Underscore(basename, 1)
        p2 == IF p1 = 0 THEN 0 ELSE Underscore(basename, p1 + 1)
        g1 == SubSeq(basename, 1, p1 - 1)
        g2 == SubSeq(basename, p1 + 1, p2 - 1)
    IN IF /\ p1 > 1 /\ p2 > 0
          /\ \A p \in 1..Len(g1) : g1[p] \in AZ
          /\ Len(g2) >= 2
          /\ \A p \in 1..(Len(g2) - 1) : g2[p] \in Digits
          /\ g2[Len(g2)] \in {"m", "h"}
       THEN [ok |-> TRUE, ticker |-> g1, interval |-> g2]
       ELSE [ok |-> FALSE, ticker |-> <<>>, interval |-> <<>>]

\* file_pattern.match(basename) for
\* ^([A-Z]+)_(\d+[mh])_\d{4}-\d{2}-\d{2}\.json$ : whether it matches, and
\* the two groups
file_pattern_match(basename) ==
    LET p1 == Underscore(basename, 1)
        p2 == IF p1 = 0 THEN 0 ELSE Underscore(basename, p1 + 1)
        g1 == SubSeq(basename, 1, p1 - 1)
        g2 == SubSeq(basename, p1 + 1, p2 - 1)
        rest == SubSeq(basename, p2 + 1, Len(basename))
    IN IF /\ p1 > 1 /\ p2 > 0
          /\ \A p \in 1..Len(g1) : g1[p] \in AZ
          /\ Len(g2) >= 2
          /\ \A p \in 1..(Len(g2) - 1) : g2[p] \in Digits
          /\ g2[Len(g2)] \in {"m", "h"}
          /\ Len(rest) = 10 + Len(DotJson)
          /\ DateAt(rest, 1)
          /\ SubSeq(rest, 11, Len(rest)) = DotJson
       THEN [ok |-> TRUE, ticker |-> g1, interval |-> g2]
       ELSE [ok |-> FALSE, ticker |-> <<>>, interval |-> <<>>]

\* the order of sorted(data_map.items()) with sorted(intervals) inside
ComboLeq(x, y) == StrLess(x[1], y[1]) \/ (x[1] = y[1] /\ StrLeq(x[2], y[2]))

RECURSIVE SortedCombos(_)
SortedCombos(S) ==
    IF S = {} THEN <<>>
    ELSE LET m == CHOOSE x \in S : \A y \in S : ComboLeq(x, y)
         IN <<m>> \o SortedCombos(S \ {m})

\* scan_available_data(data_dir), flattened to the order the loop of main
\* takes the combinations in
scan_available_data(d) ==
    LET all_files == Glob(d, <<"*">> \o DotJson)
        raw(f) == ~\E kw \in batch_exclude_keywords : Contains(f, kw)
        raws == SelectSeq(all_files, raw)
        hits == {file_pattern_match(raws[p]) : p \in 1..Len(raws)}
    IN SortedCombos({<<m.ticker, m.interval>> : m \in {h \in hits : h.ok}})

\* the state of the pipeline process
pipeline == <<dirExists, dir, pc, ticker, interval, deleted, file_date_pairs,
              master_candles, metadata, output_path, output, exit_code, exit_at,
              clock, runs, dir0, prev, log>>

\* directories of fragments of several pairs
BBRI == <<"B", "B", "R", "I">>
I1d == <<"1", "d">>
N_B1_19 == FileName(BBRI, I1m, D19)
N_B1_full == FileName(BBRI, I1m, <<"f", "u", "l", "l", "_">> \o D19)
N_A1d_19 == FileName(ADRO, I1d, D19)

BatchPool ==
    << [name |-> N_A1_19, content |-> DefaultContent(N_A1_19)],
       [name |-> N_A1_19b, content |-> DefaultContent(N_A1_19b)],
       [name |-> N_A1_notes, content |-> DefaultContent(N_A1_notes)],
       [name |-> N_A1_MERGED, content |-> StaleArtifact(ADRO, I1m)],
       [name |-> N_A1d_19, content |-> JList(<<Bar(T0930, 17)>>)],
       [name |-> N_A5_19, content |-> DefaultContent(N_A5_19)],
       [name |-> N_B1_19, content |-> JList(<<Bar(T0930, 18)>>)],
       [name |-> N_B1_19, content |-> JList(<<rF>>)],
       [name |-> N_B1_full, content |-> JList(<<Bar(T0930, 19)>>)] >>

BatchDirs ==
    LET pick(K) == LET in(p) == p \in K
                       idx == SelectSeq([p \in 1..Len(BatchPool) |-> p], in)
                   IN [p \in 1..Len(idx) |-> BatchPool[idx[p]]]
    IN {pick(K) : K \in {L \in SUBSET (1..Len(BatchPool)) :
                            /\ Cardinality(L) <= MaxFiles
                            /\ \A p, q \in L : BatchPool[p].name = BatchPool[q].name => p = q}}

BatchInit ==
    /\ \/ dirExists = TRUE /\ dir \in BatchDirs
       \/ dirExists = FALSE /\ dir = <<>>
    /\ Fresh
    /\ bpc = "start"
    /\ NoBatch
    /\ mpc = "off" /\ NoAlt
    /\ hpc = "off" /\ NoHarvest
    /\ vpc = "off" /\ NoAlpha

\* sys.exit(code) of the batch
BatchExit(code) ==
    /\ bpc' = "exit"
    /\ batch_exit' = code

\* main() of batch_merge_all.py up to its loop: the checks of the paths,
\* the scan and the confirmation
batch_main ==
    /\ bpc = "start"
    /\ \E scriptExists \in BOOLEAN, confirm \in {"y", "n"} :
         IF ~dirExists \/ ~scriptExists
         THEN BatchExit(1) /\ UNCHANGED data_map
         ELSE /\ data_map' = scan_available_data(dir)
              /\ IF data_map' = <<>> \/ confirm # "y"
                 THEN BatchExit(0)
                 ELSE bpc' = "loop" /\ UNCHANGED batch_exit
    /\ UNCHANGED <<next_item, success_count, failed_count, failed_items, procs>>
    /\ UNCHANGED <<pipeline, tools>>

\* a loop that ends at the first combination that fails
Tally_stopOnFailure(success) ==
    /\ IF success
       THEN /\ success_count' = success_count + 1
            /\ next_item' = next_item + 1
            /\ UNCHANGED <<failed_count, failed_items>>
       ELSE /\ failed_count' = failed_count + 1
            /\ failed_items' = Append(failed_items,
                                      Concat(<<data_map[next_item][1], <<"_">>,
                                               data_map[next_item][2]>>))
            /\ next_item' = Len(data_map) + 1
            /\ UNCHANGED success_count
    /\ bpc' = "loop"

\* the body of the loop of main after run_merge_script has returned
Tally(success) ==
    /\ IF success
       THEN /\ success_count' = success_count + 1
            /\ UNCHANGED <<failed_count, failed_items>>
       ELSE /\ failed_count' = failed_count + 1
            /\ failed_items' = Append(failed_items,
                                      Concat(<<data_map[next_item][1], <<"_">>,
                                               data_map[next_item][2]>>))
            /\ UNCHANGED success_count
    /\ next_item' = next_item + 1
    /\ bpc' = "loop"

Started(state) == Append(procs, [combo |-> data_map[next_item], state |-> state])
Ended(state) == [procs EXCEPT ![Len(procs)].state = state]

\* run_merge_script, subprocess.run starting the child, which runs main()
\* of merge_stock_data.py up to FASE 1
run_merge_script_start ==
    /\ bpc = "loop"
    /\ next_item <= Len(data_map)
    /\ procs' = Started("running")
    /\ main_run(data_map[next_item][1], data_map[next_item][2])
    /\ bpc' = "wait"
    /\ UNCHANGED <<data_map, next_item, success_count, failed_count, failed_items,
                   batch_exit>>
    /\ UNCHANGED tools

\* run_merge_script, subprocess.run raising before a child runs: the
\* except Exception branch
run_merge_script_error ==
    /\ bpc = "loop"
    /\ next_item <= Len(data_map)
    /\ procs' = Started("error")
    /\ Tally(FALSE)
    /\ UNCHANGED <<data_map, batch_exit>>
    /\ UNCHANGED <<pipeline, tools>>

\* a child started and not waited for
run_merge_script_returns_noWait ==
    /\ bpc = "wait"
    /\ Tally(TRUE)
    /\ UNCHANGED <<data_map, batch_exit, procs>>
    /\ UNCHANGED <<pipeline, tools>>

\* run_merge_script, subprocess.run returning once the child has ended:
\* True for return code 0
run_merge_script_returns ==
    /\ bpc = "wait"
    /\ pc = "done"
    /\ procs' = Ended(IF exit_code = 0 THEN "exit0" ELSE "nonzero")
    /\ Tally(exit_code = 0)
    /\ UNCHANGED <<data_map, batch_exit>>
    /\ UNCHANGED <<pipeline, tools>>

\* run_merge_script, the timeout of subprocess.run expiring while the
\* child runs: the child is killed and waited for, then TimeoutExpired is
\* caught
run_merge_script_timeout ==
    /\ bpc = "wait"
    /\ pc # "done"
    /\ pc' = "killed"
    /\ procs' = Ended("timeout")
    /\ Tally(FALSE)
    /\ UNCHANGED <<data_map, batch_exit>>
    /\ UNCHANGED <<dirExists, dir, ticker, interval, deleted, file_date_pairs,
                   master_candles, metadata, output_path, output, exit_code,
                   exit_at, clock, runs, dir0, prev, log>>
    /\ UNCHANGED tools

\* main() of batch_merge_all.py after its loop
batch_summary ==
    /\ bpc = "loop"
    /\ next_item > Len(data_map)
    /\ bpc' = "summary"
    /\ batch_exit' = 0
    /\ UNCHANGED <<data_map, next_item, success_count, failed_count, failed_items,
                   procs>>
    /\ UNCHANGED <<pipeline, tools>>

BatchNext ==
    \/ batch_main
    \/ run_merge_script_start
    \/ run_merge_script_error
    \/ Fase1
    \/ Fase2
    \/ Fase3
    \/ Fase4
    \/ Fase5
    \/ run_merge_script_returns
    \/ run_merge_script_timeout
    \/ batch_summary

BatchSpec == BatchInit /\ [][BatchNext]_vars

\* ------------------------------------------------ merge-and-update-data.py
\* s.replace(old, "") for a string old
RECURSIVE Strip(_, _)
Strip(s, old) ==
    IF s = <<>> THEN <<>>
    ELSE IF StartsWith(s, old) THEN Strip(SubSeq(s, Len(old) + 1, Len(s)), old)
    ELSE <<Head(s)>> \o Strip(Tail(s), old)

\* s.split(c) for a one-character c
RECURSIVE Split(_, _)
Split(s, c) ==
    IF \A p \in 1..Len(s) : s[p] # c THEN <<s>>
    ELSE LET p == CHOOSE q \in 1..Len(s) : s[q] = c /\ \A r \in 1..(q - 1) : s[r] # c
         IN <<SubSeq(s, 1, p - 1)>> \o Split(SubSeq(s, p + 1, Len(s)), c)

\* parse_filename(filename): (ticker, interval, date) or None
parse_filename(filename) ==
    LET parts == Split(Strip(filename, DotJson), "_")
    IN IF Len(parts) = 3
       THEN [ok |-> TRUE, ticker |-> parts[1], interval |-> parts[2], date |-> parts[3]]
       ELSE [ok |-> FALSE, ticker |-> <<>>, interval |-> <<>>, date |-> <<>>]

\* the elements of a sequence in the order of their first occurrence
RECURSIVE FirstSeen(_)
FirstSeen(q) ==
    IF q = <<>> THEN <<>>
    ELSE LET before == FirstSeen(SubSeq(q, 1, Len(q) - 1))
         IN IF \E p \in 1..Len(before) : before[p] = q[Len(q)]
            THEN before ELSE Append(before, q[Len(q)])

\* list.sort() of a list of str
RECURSIVE InsertStr(_, _)
InsertStr(sorted, x) ==
    IF sorted = <<>> THEN <<x>>
    ELSE IF StrLess(x, Head(sorted)) THEN <<x>> \o sorted
    ELSE <<Head(sorted)>> \o InsertStr(Tail(sorted), x)

RECURSIVE SortStr(_)
SortStr(q) ==
    IF q = <<>> THEN <<>>
    ELSE InsertStr(SortStr(SubSeq(q, 1, Len(q) - 1)), q[Len(q)])

\* scan_existing_files(): {ticker: {interval: [dates]}} as the sequence of
\* its (ticker, interval) entries in the order the loops of main take them,
\* that of the first file of each ticker and, within it, of each interval
scan_existing_files(d) ==
    LET files == Glob(d, <<"*">> \o DotJson)
        parsed == [p \in 1..Len(files) |-> parse_filename(files[p])]
        ok(h) == h.ok
        hits == SelectSeq(parsed, ok)
        tickers == FirstSeen([p \in 1..Len(hits) |-> hits[p].ticker])
        intervals(t) == LET of(h) == h.ticker = t
                            mine == SelectSeq(hits, of)
                        IN FirstSeen([p \in 1..Len(mine) |-> mine[p].interval])
        dates(t, i) == LET of(h) == h.ticker = t /\ h.interval = i
                           mine == SelectSeq(hits, of)
                       IN SortStr([p \in 1..Len(mine) |-> mine[p].date])
    IN Concat([p \in 1..Len(tickers) |->
                 [q \in 1..Len(intervals(tickers[p])) |->
                    [ticker |-> tickers[p],
                     interval |-> intervals(tickers[p])[q],
                     dates |-> dates(tickers[p], intervals(tickers[p])[q])]]])

\* datetime.strptime(s, "%Y-%m-%d") for the names of the model, which hold
\* a ten-character date or no date: whether it parses, and its day number
strptime_date(s) ==
    IF /\ Len(s) = 10 /\ DateAt(s, 1)
       /\ Num2(s, 6) \in 1..12
       /\ Num2(s, 9) \in 1..DaysInMonth(100 * Num2(s, 1) + Num2(s, 3), Num2(s, 6))
    THEN [ok |-> TRUE,
          day |-> DaysFromCivil(100 * Num2(s, 1) + Num2(s, 3), Num2(s, 6), Num2(s, 9))]
    ELSE [ok |-> FALSE, day |-> 0]

\* calculate_duration_label(start_date, end_date), where both parse
calculate_duration_label(start_date, end_date) ==
    IntToStr(strptime_date(end_date).day - strptime_date(start_date).day + 1) \o days

\* lambda x: x.get('time', x.get('t', 0)), the sort key of merge_files
sort_key(x) ==
    IF x.get["time"] # None THEN x.get["time"]
    ELSE IF x.get["t"] # None THEN x.get["t"]
    ELSE Num(0)

\* a < b of two keys of the same type
KeyLess(a, b) == IF a.k = "str" THEN StrLess(a.s, b.s) ELSE a.n < b.n

\* list.sort(key=...): a stable sort, ascending by the key
RECURSIVE InsertByKey(_, _)
InsertByKey(sorted, x) ==
    IF sorted = <<>> THEN <<x>>
    ELSE IF KeyLess(sort_key(x), sort_key(Head(sorted))) THEN <<x>> \o sorted
    ELSE <<Head(sorted)>> \o InsertByKey(Tail(sorted), x)

RECURSIVE SortByKey(_)
SortByKey(q) ==
    IF q = <<>> THEN <<>>
    ELSE InsertByKey(SortByKey(SubSeq(q, 1, Len(q) - 1)), q[Len(q)])

\* the candles merge_files takes from one file: none when open or
\* json.load raises
candles_read(d, filename) ==
    IF filename \notin Names(d) THEN <<>>
    ELSE LET data == ContentOf(d, filename)
         IN IF data.kind = "list" THEN data.arr
            ELSE IF data.kind = "dict" THEN data.cont["candles"].a
            ELSE <<>>

\* merge_files(ticker, interval, dates): what it returns, or that it
\* raises: AttributeError of the key for an element that is not an object,
\* TypeError of the sort for keys of two types, ValueError of strptime
merge_files(t, i, dates, d) ==
    LET all_candles == Concat([p \in 1..Len(dates) |->
                                 candles_read(d, FileName(t, i, dates[p]))])
        keyFails == \E p \in 1..Len(all_candles) : ~all_candles[p].obj
        sortFails == \E p, q \in 1..Len(all_candles) :
                         sort_key(all_candles[p]).k # sort_key(all_candles[q]).k
        labelFails == \/ ~strptime_date(dates[1]).ok
                      \/ ~strptime_date(dates[Len(dates)]).ok
    IN IF keyFails \/ sortFails \/ labelFails
       THEN [raised |-> TRUE, data |-> NoMerged]
       ELSE [raised |-> FALSE,
             data |-> [ticker |-> t, interval |-> i,
                       duration |-> calculate_duration_label(dates[1], dates[Len(dates)]),
                       start_date |-> dates[1], end_date |-> dates[Len(dates)],
                       total_candles |-> Len(all_candles), source_files |-> Len(dates),
                       candles |-> SortByKey(all_candles)]]

\* the name save_merged_file writes to
merged_filename(data) ==
    FileName(data.ticker, data.interval,
             Concat(<<data.duration, <<"_", "(">>, data.start_date, <<"_">>,
                      data.end_date, <<")">>>>))

\* directories of daily files, artifacts of the core pipeline and merged
\* files of earlier runs
AltPool ==
    << [name |-> N_A1_17, content |-> DefaultContent(N_A1_17)],
       [name |-> N_A1_18, content |-> DefaultContent(N_A1_18)],
       [name |-> N_A1_18, content |-> Invalid],
       [name |-> N_A1_18, content |-> JList(<<rB, NotObj>>)],
       [name |-> N_A1_19, content |-> DefaultContent(N_A1_19)],
       [name |-> N_A1_19, content |-> JList(<<rF>>)],
       [name |-> N_A1_19b, content |-> DefaultContent(N_A1_19b)],
       [name |-> N_A1_MERGED, content |-> StaleArtifact(ADRO, I1m)],
       [name |-> N_A1_2days, content |-> JDict([candles |-> <<Bar(T0930, 10)>>])],
       [name |-> N_A5_19, content |-> DefaultContent(N_A5_19)],
       [name |-> N_A5_MERGED, content |-> StaleArtifact(ADRO, I5m)],
       [name |-> N_B1_19, content |-> JList(<<Bar(T0930, 18)>>)] >>

AltDirs ==
    LET pick(K) == LET in(p) == p \in K
                       idx == SelectSeq([p \in 1..Len(AltPool) |-> p], in)
                   IN [p \in 1..Len(idx) |-> AltPool[idx[p]]]
    IN {pick(K) : K \in {L \in SUBSET (1..Len(AltPool)) :
                            /\ Cardinality(L) <= MaxFiles
                            /\ \A p, q \in L : AltPool[p].name = AltPool[q].name => p = q}}

AltInit ==
    /\ \/ dirExists = TRUE /\ dir \in AltDirs
       \/ dirExists = FALSE /\ dir = <<>>
    /\ Fresh
    /\ bpc = "off"
    /\ NoBatch
    /\ mpc = "start" /\ NoAlt
    /\ hpc = "off" /\ NoHarvest
    /\ vpc = "off" /\ NoAlpha

\* what the actions of merge-and-update-data.py leave alone
beside_alt == <<dirExists, pc, ticker, interval, deleted, file_date_pairs,
                master_candles, metadata, output_path, output, exit_code, exit_at,
                clock, runs, dir0, prev, log, batch, harvest, alpha>>

\* main() of merge-and-update-data.py, step 1: the scan.  The script is
\* started on a directory, or once more after it has ended
alt_main ==
    /\ mpc \in {"start", "done", "crashed"}
    /\ m_runs < MaxRuns
    /\ m_runs' = m_runs + 1
    /\ m_data_map' = scan_existing_files(dir)
    /\ m_next' = 1
    /\ merged_data' = NoMerged
    /\ merged_count' = 0
    /\ mpc' = "loop"
    /\ UNCHANGED <<dir, beside_alt>>

\* step 2, a (ticker, interval) with fewer than two dates: skipped
alt_skip ==
    /\ mpc = "loop"
    /\ m_next <= Len(m_data_map)
    /\ Len(m_data_map[m_next].dates) < 2
    /\ m_next' = m_next + 1
    /\ UNCHANGED <<dir, mpc, m_data_map, merged_data, merged_count, m_runs, beside_alt>>

\* step 2, merge_files for a (ticker, interval) with two dates or more; an
\* exception it raises leaves main with a traceback
alt_merge ==
    /\ mpc = "loop"
    /\ m_next <= Len(m_data_map)
    /\ Len(m_data_map[m_next].dates) >= 2
    /\ LET e == m_data_map[m_next]
           r == merge_files(e.ticker, e.interval, e.dates, dir)
       IN IF r.raised
          THEN mpc' = "crashed" /\ UNCHANGED merged_data
          ELSE mpc' = "merged" /\ merged_data' = r.data
    /\ UNCHANGED <<dir, m_data_map, m_next, merged_count, m_runs, beside_alt>>

\* step 2, save_merged_file for what merge_files returned
alt_save ==
    /\ mpc = "merged"
    /\ dir' = WriteFile(dir, merged_filename(merged_data),
                        JDict([candles |-> merged_data.candles]))
    /\ merged_count' = merged_count + 1
    /\ m_next' = m_next + 1
    /\ mpc' = "loop"
    /\ UNCHANGED <<m_data_map, merged_data, m_runs, beside_alt>>

\* the end of the loop of step 2; steps 3 and 4 only ask yfinance for
\* tickers and dates and print what it answers
alt_finish ==
    /\ mpc = "loop"
    /\ m_next > Len(m_data_map)
    /\ mpc' = "done"
    /\ UNCHANGED <<dir, m_data_map, m_next, merged_data, merged_count, m_runs, beside_alt>>

AltNext ==
    \/ alt_main
    \/ alt_skip
    \/ alt_merge
    \/ alt_save
    \/ alt_finish

AltSpec == AltInit /\ [][AltNext]_vars

\* ------------------------------------------------------- harvest_stocks.py
\* Instants are minutes since 2025-12-01 00:00:00; the candles of the model
\* lie in December 2025.
CHUNK_SIZE_DAYS == 7
TOTAL_DAYS == 28
MaxHarvests == 2

Minute(day, minuteOfDay) == day * 1440 + minuteOfDay
\* the calendar day an instant lies in: what strftime('%Y-%m-%d') keeps of it
DayOf(t) == t \div 1440

Pad2(n) == <<DigitChar(n \div 10), DigitChar(n % 10)>>

\* idx.strftime('%Y-%m-%d %H:%M:%S')
strftime_full(t) ==
    Concat(<< <<"2", "0", "2", "5", "-", "1", "2", "-">>, Pad2(1 + DayOf(t)), <<" ">>,
              Pad2((t % 1440) \div 60), <<":">>, Pad2(t % 60), <<":", "0", "0">> >>)

\* datetime.strptime(s, '%Y-%m-%d %H:%M:%S'): whether it parses, and the
\* instant
strptime_full(s) ==
    IF /\ Len(s) = 19 /\ strptime_date(SubSeq(s, 1, 10)).ok
       /\ s[11] = " " /\ s[14] = ":" /\ s[17] = ":"
       /\ IsNum2(s, 12) /\ IsNum2(s, 15) /\ IsNum2(s, 18)
       /\ Num2(s, 12) <= 23 /\ Num2(s, 15) <= 59 /\ Num2(s, 18) <= 61
    THEN [ok |-> TRUE,
          t |-> Minute(strptime_date(SubSeq(s, 1, 10)).day - DaysFromCivil(2025, 12, 1),
                       60 * Num2(s, 12) + Num2(s, 15))]
    ELSE [ok |-> FALSE, t |-> 0]

\* load_existing_data(filepath): None, or the array of the file and the
\* instant of its last candle
load_existing_data(file) ==
    IF ~file.exists \/ file.data = <<>> THEN NoExisting
    ELSE LET last == strptime_full(file.data[Len(file.data)].time)
         IN IF last.ok
            THEN [ok |-> TRUE, data |-> file.data, last_timestamp |-> last.t]
            ELSE NoExisting

\* The candles Yahoo can serve, and what it serves during one run: for
\* each candle nothing (0) or a close price.
Market == {Minute(0, 570), Minute(0, 571), Minute(1, 570), Minute(9, 570)}
Snapshots == [Market -> {0, 1, 2}]
NowValues == {Minute(1, 600), Minute(2, 600), Minute(11, 600), Minute(29, 600)}

\* the rows of a set of instants in ascending order
RECURSIVE RowsOf(_, _)
RowsOf(S, snap) ==
    IF S = {} THEN <<>>
    ELSE LET t == CHOOSE x \in S : \A y \in S : x <= y
         IN <<[idx |-> t, px |-> snap[t]]>> \o RowsOf(S \ {t}, snap)

\* download_chunk(ticker, start_date, end_date): yf.download for the days
\* from that of start_date up to, and without, that of end_date; an error
\* gives the empty DataFrame
download_chunk(snap, start_date, end_date) ==
    RowsOf({t \in Market : /\ snap[t] # 0
                           /\ DayOf(start_date) <= DayOf(t)
                           /\ DayOf(t) < DayOf(end_date)}, snap)

\* df[~df.index.duplicated(keep='first')]
RECURSIVE drop_duplicated(_)
drop_duplicated(rows) ==
    IF rows = <<>> THEN <<>>
    ELSE LET before == drop_duplicated(SubSeq(rows, 1, Len(rows) - 1))
             last == rows[Len(rows)]
         IN IF \E p \in 1..Len(before) : before[p].idx = last.idx
            THEN before ELSE Append(before, last)

\* df.sort_index()
RECURSIVE InsertRow(_, _)
InsertRow(sorted, row) ==
    IF sorted = <<>> THEN <<row>>
    ELSE IF row.idx < Head(sorted).idx THEN <<row>> \o sorted
    ELSE <<Head(sorted)>> \o InsertRow(Tail(sorted), row)

RECURSIVE sort_index(_)
sort_index(rows) ==
    IF rows = <<>> THEN <<>>
    ELSE InsertRow(sort_index(SubSeq(rows, 1, Len(rows) - 1)), rows[Len(rows)])

\* download_full_range(ticker, days): the chunks from the latest to the
\* earliest, concatenated, without duplicates, sorted
download_full_range(snap, now, numDays) ==
    LET num_chunks == numDays \div CHUNK_SIZE_DAYS
        chunk(i) == download_chunk(snap,
                                   now - Minute(i * CHUNK_SIZE_DAYS, 0)
                                       - Minute(CHUNK_SIZE_DAYS, 0),
                                   now - Minute(i * CHUNK_SIZE_DAYS, 0))
    IN sort_index(drop_duplicated(Concat([i \in 1..num_chunks |-> chunk(i - 1)])))

\* download_incremental(ticker, last_timestamp)
download_incremental(snap, now, last_timestamp) ==
    LET start_date == last_timestamp + 1
        days_diff == (now - start_date) \div 1440
        num_chunks == (days_diff \div CHUNK_SIZE_DAYS) + 1
        chunk_start(i) == start_date + Minute(i * CHUNK_SIZE_DAYS, 0)
        chunk_end(i) == IF chunk_start(i) + Minute(CHUNK_SIZE_DAYS, 0) < now
                        THEN chunk_start(i) + Minute(CHUNK_SIZE_DAYS, 0) ELSE now
    IN IF days_diff <= 0 THEN <<>>
       ELSE IF days_diff <= CHUNK_SIZE_DAYS THEN download_chunk(snap, start_date, now)
       ELSE sort_index(drop_duplicated(Concat(
                [i \in 1..num_chunks |->
                    download_chunk(snap, chunk_start(i - 1), chunk_end(i - 1))])))

\* dataframe_to_json_array(df, ticker)
dataframe_to_json_array(rows) ==
    [p \in 1..Len(rows) |-> [time |-> strftime_full(rows[p].idx), close |-> rows[p].px]]

\* the loop over seen_times: the first candle of each time is kept
RECURSIVE unique_by_time(_)
unique_by_time(candles) ==
    IF candles = <<>> THEN <<>>
    ELSE LET before == unique_by_time(SubSeq(candles, 1, Len(candles) - 1))
             last == candles[Len(candles)]
         IN IF \E p \in 1..Len(before) : before[p].time = last.time
            THEN before ELSE Append(before, last)

\* unique_candles.sort(key=lambda x: x['time'])
RECURSIVE InsertByTime(_, _)
InsertByTime(sorted, candle) ==
    IF sorted = <<>> THEN <<candle>>
    ELSE IF StrLess(candle.time, Head(sorted).time) THEN <<candle>> \o sorted
    ELSE <<Head(sorted)>> \o InsertByTime(Tail(sorted), candle)

RECURSIVE sort_by_time(_)
sort_by_time(candles) ==
    IF candles = <<>> THEN <<>>
    ELSE InsertByTime(sort_by_time(SubSeq(candles, 1, Len(candles) - 1)),
                      candles[Len(candles)])

\* a merge in which the downloaded candle replaces the one of the file
merge_candles_newFirst(old, new_candles) ==
    sort_by_time(unique_by_time(new_candles \o old))

\* the incremental branch of process_ticker: existing['data'] +
\* new_candles, without the later candle of a time, sorted by time
merge_candles(old, new_candles) ==
    sort_by_time(unique_by_time(old \o new_candles))

HarvestInit ==
    /\ dirExists = TRUE /\ dir = <<>>
    /\ Fresh
    /\ bpc = "off"
    /\ NoBatch
    /\ mpc = "off" /\ NoAlt
    /\ hpc = "idle" /\ NoHarvest
    /\ vpc = "off" /\ NoAlpha

\* what the actions of harvest_stocks.py leave alone
beside_harvest == <<dirExists, dir, pc, ticker, interval, deleted, file_date_pairs,
                    master_candles, metadata, output_path, output, exit_code,
                    exit_at, clock, runs, dir0, prev, log, batch, alt, alpha>>

\* process_ticker(ticker, interval, force_full) up to the download: the
\* check for existing data
process_ticker_load ==
    /\ hpc \in {"idle", "ended"}
    /\ h_runs < MaxHarvests
    /\ \E force_full \in BOOLEAN, now \in NowValues :
         /\ now >= hnow
         /\ hnow' = now
         /\ existing' = IF force_full THEN NoExisting ELSE load_existing_data(hfile)
    /\ h_runs' = h_runs + 1
    /\ h_before' = hfile
    /\ df' = <<>>
    /\ h_mode' = IF existing'.ok THEN "incremental" ELSE "full"
    /\ hpc' = "download"
    /\ UNCHANGED <<hfile, beside_harvest>>

\* process_ticker, the download of its branch
process_ticker_download ==
    /\ hpc = "download"
    /\ \E snap \in Snapshots :
         df' = IF existing.ok
               THEN download_incremental(snap, hnow, existing.last_timestamp)
               ELSE download_full_range(snap, hnow, TOTAL_DAYS)
    /\ hpc' = "merge"
    /\ UNCHANGED <<hfile, hnow, h_runs, existing, h_before, h_mode, beside_harvest>>

\* process_ticker after the download: the return without a save when
\* nothing came, the merge of the incremental branch, the save
process_ticker_save ==
    /\ hpc = "merge"
    /\ IF df = <<>>
       THEN UNCHANGED hfile
       ELSE hfile' = [exists |-> TRUE,
                      data |-> IF existing.ok
                               THEN merge_candles(existing.data, dataframe_to_json_array(df))
                               ELSE dataframe_to_json_array(df)]
    /\ hpc' = "ended"
    /\ UNCHANGED <<hnow, h_runs, existing, df, h_before, h_mode, beside_harvest>>

HarvestNext ==
    \/ process_ticker_load
    \/ process_ticker_download
    \/ process_ticker_save

HarvestSpec == HarvestInit /\ [][HarvestNext]_vars

\* ------------------------------------------------ alpha_vantage_harvester.py
RATE_LIMIT_DELAY == 15
RETRY_DELAY == 60
MAX_RETRIES == 3
MaxTickers == 2

\* the months download_ticker asks for: range(1, 3) in test mode,
\* range(1, 13) otherwise
LastMonth(test_mode) == IF test_mode THEN 2 ELSE 12

\* what a request can be answered with: a rate-limit response, another
\* HTTP error, an API error message, a CSV with no data line, a CSV with
\* data, or a RequestException
Responses == {"rate_limit", "http_error", "api_error", "empty", "csv", "network_error"}

AlphaInit ==
    /\ dirExists = TRUE /\ dir = <<>>
    /\ Fresh
    /\ bpc = "off"
    /\ NoBatch
    /\ mpc = "off" /\ NoAlt
    /\ hpc = "off" /\ NoHarvest
    /\ vpc = "start" /\ NoAlpha

\* what the actions of alpha_vantage_harvester.py leave alone
beside_alpha == <<dirExists, dir, pc, ticker, interval, deleted, file_date_pairs,
                  master_candles, metadata, output_path, output, exit_code,
                  exit_at, clock, runs, dir0, prev, log, batch, alt, harvest>>

\* main() up to its loop: the arguments and the harvester object
alpha_main ==
    /\ vpc = "start"
    /\ \E test \in BOOLEAN, n \in 1..MaxTickers :
         /\ v_test' = test
         /\ v_tickers' = IF test THEN 1 ELSE n
    /\ vpc' = "ticker"
    /\ UNCHANGED <<v_ticker, v_month, retry_count, request_count, v_response, v_parsed,
                   v_successful, v_failed, v_sent, v_slept, v_unslept, v_tries,
                   beside_alpha>>

\* the loop of main calling download_ticker, which starts with month 1
download_ticker ==
    /\ vpc = "ticker"
    /\ v_ticker <= v_tickers
    /\ v_month' = 1
    /\ v_parsed' = 0
    /\ retry_count' = 0
    /\ v_tries' = 0
    /\ vpc' = "fetch"
    /\ UNCHANGED <<v_test, v_tickers, v_ticker, request_count, v_response,
                   v_successful, v_failed, v_sent, v_slept, v_unslept, beside_alpha>>

\* _fetch_slice: self.session.get and its answer
fetch_slice_get ==
    /\ vpc = "fetch"
    /\ \E r \in Responses : v_response' = r
    /\ v_sent' = TRUE
    /\ v_tries' = v_tries + 1
    /\ v_unslept' = (v_unslept \/ (v_sent /\ v_slept = 0))
    /\ v_slept' = 0
    /\ vpc' = "answered"
    /\ UNCHANGED <<v_test, v_tickers, v_ticker, v_month, retry_count, request_count,
                   v_parsed, v_successful, v_failed, beside_alpha>>

\* _fetch_slice after a rate-limit response with retries left: the sleep
\* of RETRY_DELAY, then the call of itself with retry_count + 1
fetch_slice_retry ==
    /\ vpc = "answered"
    /\ v_response = "rate_limit"
    /\ retry_count < MAX_RETRIES
    /\ v_slept' = RETRY_DELAY
    /\ retry_count' = retry_count + 1
    /\ vpc' = "fetch"
    /\ UNCHANGED <<v_test, v_tickers, v_ticker, v_month, request_count, v_response,
                   v_parsed, v_successful, v_failed, v_sent, v_unslept, v_tries,
                   beside_alpha>>

\* the end of download_ticker in main: the file is saved when there are
\* candles, and the loop moves to the next ticker
TickerEnds(parsed) ==
    /\ IF parsed > 0
       THEN v_successful' = v_successful + 1 /\ UNCHANGED v_failed
       ELSE v_failed' = v_failed + 1 /\ UNCHANGED v_successful
    /\ v_ticker' = v_ticker + 1
    /\ vpc' = "ticker"

\* _fetch_slice returning None: retries used up, an error, or no data;
\* download_ticker then stops asking for slices
fetch_slice_none ==
    /\ vpc = "answered"
    /\ \/ v_response = "rate_limit" /\ retry_count >= MAX_RETRIES
       \/ v_response \in {"http_error", "api_error", "empty", "network_error"}
    /\ TickerEnds(v_parsed)
    /\ UNCHANGED <<v_test, v_tickers, v_month, retry_count, request_count, v_response,
                   v_parsed, v_sent, v_slept, v_unslept, v_tries, beside_alpha>>

\* _fetch_slice returning the CSV after _wait_for_rate_limit, which counts
\* the request and sleeps RATE_LIMIT_DELAY; download_ticker parses the
\* slice and goes on to the next month, or ends after the last one
fetch_slice_csv ==
    /\ vpc = "answered"
    /\ v_response = "csv"
    /\ request_count' = request_count + 1
    /\ v_slept' = RATE_LIMIT_DELAY
    /\ v_parsed' = v_parsed + 1
    /\ IF v_month < LastMonth(v_test)
       THEN /\ v_month' = v_month + 1
            /\ retry_count' = 0
            /\ v_tries' = 0
            /\ vpc' = "fetch"
            /\ UNCHANGED <<v_ticker, v_successful, v_failed>>
       ELSE /\ TickerEnds(v_parsed')
            /\ UNCHANGED <<v_month, retry_count, v_tries>>
    /\ UNCHANGED <<v_test, v_tickers, v_response, v_sent, v_unslept, beside_alpha>>

\* main() after its loop: the summary
alpha_summary ==
    /\ vpc = "ticker"
    /\ v_ticker > v_tickers
    /\ vpc' = "done"
    /\ UNCHANGED <<v_test, v_tickers, v_ticker, v_month, retry_count, request_count,
                   v_response, v_parsed, v_successful, v_failed, v_sent, v_slept,
                   v_unslept, v_tries, beside_alpha>>

AlphaNext ==
    \/ alpha_main
    \/ download_ticker
    \/ fetch_slice_get
    \/ fetch_slice_retry
    \/ fetch_slice_none
    \/ fetch_slice_csv
    \/ alpha_summary

AlphaSpec == AlphaInit /\ [][AlphaNext]_vars

\* ================================================================= claims
Markers == {MERGED, COMBINED, days}

\* the name has the form TICKER_INTERVAL_<anything>.json
HasShape(name, t, i) ==
    /\ StartsWith(name, Prefix(t, i))
    /\ EndsWith(name, DotJson)
    /\ Len(name) >= Len(Prefix(t, i)) + Len(DotJson)

\* the part of a name after the TICKER_INTERVAL_ prefix
AfterPrefix(name, t, i) == SubSeq(name, Len(Prefix(t, i)) + 1, Len(name))

\* a derived output of the pair: a marker after the prefix
IsDerived(name, t, i) ==
    HasShape(name, t, i) /\ \E kw \in Markers : Contains(AfterPrefix(name, t, i), kw)

\* a raw file of the pair: no marker anywhere in the name
IsRaw(name, t, i) ==
    HasShape(name, t, i) /\ \A kw \in Markers : ~Contains(name, kw)

\* a raw per-day fragment TICKER_INTERVAL_YYYY-MM-DD.json of the pair
IsDailyFragment(name, t, i) ==
    /\ HasShape(name, t, i)
    /\ Len(AfterPrefix(name, t, i)) = 10 + Len(DotJson)
    /\ DateAt(AfterPrefix(name, t, i), 1)

HasDate(name) == \E p \in 1..Len(name) : DateAt(name, p)
FirstDate(name) ==
    LET p == CHOOSE q \in 1..Len(name) :
                 DateAt(name, q) /\ \A r \in 1..(q - 1) : ~DateAt(name, r)
    IN SubSeq(name, p, p + 9)

\* the position of a name in a directory
PosIn(d, name) == CHOOSE p \in 1..Len(d) : d[p].name = name

Entries(d) == {d[p] : p \in 1..Len(d)}

C9_DiscovererResult ==
    pc = "fase_3" =>
        /\ {file_date_pairs[p][1] : p \in 1..Len(file_date_pairs)}
             = {n \in Names(dir) : IsRaw(n, ticker, interval) /\ HasDate(n)}
        /\ \A p, q \in 1..Len(file_date_pairs) :
             file_date_pairs[p][1] = file_date_pairs[q][1] => p = q
        /\ \A p \in 1..Len(file_date_pairs) :
             file_date_pairs[p][2] = FirstDate(file_date_pairs[p][1])
        /\ \A p, q \in 1..Len(file_date_pairs) :
             p < q => StrLeq(file_date_pairs[p][2], file_date_pairs[q][2])

\* the Discoverer has returned two files that the directory enumerates in
\* descending date order, and has left out a raw file without a date
C9_Witness ==
    /\ pc = "fase_3"
    /\ Len(file_date_pairs) = 2
    /\ file_date_pairs[1][2] # file_date_pairs[2][2]
    /\ PosIn(dir, file_date_pairs[1][1]) > PosIn(dir, file_date_pairs[2][1])
    /\ \E n \in Names(dir) : IsRaw(n, ticker, interval) /\ ~HasDate(n)

\* C4: a run on an existing directory that holds no raw file of the pair
\* never gets past discovery, ends with a non-zero exit code there, and at
\* no point of the run does the directory hold a file that the run created
\* or overwrote (every entry is an entry the run found, content included).
C4_NoRawNoArtifact ==
    (pc # "idle" /\ dirExists
     /\ ~\E n \in Names(dir0) : IsRaw(n, ticker, interval)) =>
        /\ pc \in {"fase_1", "fase_2", "done"}
        /\ pc = "done" => exit_code # 0 /\ exit_at = "fase_2_discovery"
        /\ output_path = <<>>
        /\ Entries(dir) \subseteq Entries(dir0)

\* a run has ended at discovery in a directory that held an artifact of the
\* pair and no raw file
C4_Witness ==
    /\ pc = "done"
    /\ exit_at = "fase_2_discovery"
    /\ output_filename(ticker, interval) \in Names(dir0)
    /\ ~\E n \in Names(dir0) : IsRaw(n, ticker, interval)

\* C10: a finished run has exit code 0 when it has written the artifact;
\* its exit code is non-zero when the directory does not exist (and then
\* nothing was deleted), when no raw file of the pair was there to
\* discover, and when the reconstructed sequence is empty.
C10_ExitCodes ==
    pc = "done" =>
        /\ output_path # <<>> => exit_code = 0
        /\ ~dirExists => exit_code # 0 /\ deleted = <<>> /\ dir = dir0
        /\ (~\E n \in Names(dir0) : IsRaw(n, ticker, interval)) => exit_code # 0
        /\ master_candles = <<>> => exit_code # 0

\* a run has got as far as measuring the metadata of an empty sequence and
\* has exited with a non-zero code
C10_Witness ==
    /\ pc = "done"
    /\ exit_at = "fase_4_metadata"
    /\ exit_code = 1
    /\ Len(file_date_pairs) > 0

\* ---- the records a run reconstructs, stated from the fragment files
\* the record has a truthy value under one of the time keys
Resolvable(rec) == rec.obj /\ \E k \in TimeKeys : Truthy(rec.get[k])

\* its resolved time value: the first truthy one in the order of the keys
ResolvedTime(rec) ==
    LET p == CHOOSE q \in 1..4 :
                 /\ Truthy(rec.get[TimeKeyOrder[q]])
                 /\ \A r \in 1..(q - 1) : ~Truthy(rec.get[TimeKeyOrder[r]])
    IN rec.get[TimeKeyOrder[p]]

\* the file parses and every element of its candle array is a JSON object
AllObjects(content) ==
    /\ content.kind # "invalid"
    /\ \A p \in 1..Len(candles_of(content)) : candles_of(content)[p].obj

\* the resolvable records of the files of pairs, file after file, each with
\* the date of its file
RECURSIVE SourceRecords(_, _)
SourceRecords(d, pairs) ==
    IF pairs = <<>> THEN <<>>
    ELSE LET content == ContentOf(d, Head(pairs)[1])
             recs == IF content.kind = "invalid" THEN <<>>
                     ELSE SelectSeq(candles_of(content), Resolvable)
         IN [p \in 1..Len(recs) |-> [rec |-> recs[p], date |-> Head(pairs)[2]]]
            \o SourceRecords(d, Tail(pairs))

\* every discovered file is unparseable or holds objects only
PlainFiles ==
    \A p \in 1..Len(file_date_pairs) :
        LET content == ContentOf(dir, file_date_pairs[p][1])
        IN content.kind = "invalid" \/ AllObjects(content)

\* the timestamp the rule of C7 gives for time value v in a file dated D
ClaimedTimestamp(v, D) ==
    IF v.k = "str" /\ \E p \in 1..Len(v.s) : v.s[p] = "T"
    THEN v.s
    ELSE LET txt == PyStr(v) IN
         IF Cardinality({p \in 1..Len(txt) : txt[p] = ":"}) = 1
         THEN Concat(<<D, <<"T">>, txt, <<":", "0", "0">>, <<"Z">>>>)
         ELSE Concat(<<D, <<"T">>, txt, <<"Z">>>>)

TS19_093100 == <<"2", "0", "2", "5", "-", "1", "2", "-", "1", "9", "T", "0", "9", ":", "3", "1", ":", "0", "0", "Z">>
TS19_093045 == <<"2", "0", "2", "5", "-", "1", "2", "-", "1", "9", "T", "0", "9", ":", "3", "0", ":", "4", "5", "Z">>

\* C7: each reconstructed candle carries the timestamp built from the
\* resolved time value v of its record and the date D of its file: v itself
\* when v is a string containing T, else D T str(v) :00 Z when str(v) has
\* exactly one colon and D T str(v) Z otherwise; 09:31 in a 2025-12-19 file
\* gives 2025-12-19T09:31:00Z and 09:30:45 gives 2025-12-19T09:30:45Z.
C7_TimestampRule ==
    (pc = "fase_4" /\ PlainFiles) =>
        LET src == SourceRecords(dir, file_date_pairs) IN
        /\ Len(master_candles) = Len(src)
        /\ \A p \in 1..Len(src) :
             /\ master_candles[p].timestamp
                  = ClaimedTimestamp(ResolvedTime(src[p].rec), src[p].date)
             /\ (ResolvedTime(src[p].rec) = Str(T0931) /\ src[p].date = D19)
                  => master_candles[p].timestamp = TS19_093100
             /\ (ResolvedTime(src[p].rec) = Str(T093045) /\ src[p].date = D19)
                  => master_candles[p].timestamp = TS19_093045

\* one file has given a candle whose time value was a full timestamp and a
\* candle whose time value was a clock time with seconds
C7_Witness ==
    /\ pc = "fase_4"
    /\ PlainFiles
    /\ Len(master_candles) = 2
    /\ master_candles[1].timestamp = TFull18
    /\ master_candles[2].timestamp = TS19_093045

\* C8: each of open, high, low, close of a reconstructed candle is the
\* value under the long-form key when that value is truthy, and the value
\* under the single-letter key otherwise (None when that key is absent).
C8_OhlcAliases ==
    (pc = "fase_4" /\ PlainFiles) =>
        LET src == SourceRecords(dir, file_date_pairs) IN
        /\ Len(master_candles) = Len(src)
        /\ \A p \in 1..Len(src) : \A kk \in OhlcKeys :
             master_candles[p][kk[1]]
               = (IF Truthy(src[p].rec.get[kk[1]])
                  THEN src[p].rec.get[kk[1]] ELSE src[p].rec.get[kk[2]])

\* a record with close = 100 and c = 200 has given close 100, a record
\* with c = 200 only has given close 200
C8_Witness ==
    /\ pc = "fase_4"
    /\ PlainFiles
    /\ Len(master_candles) = 2
    /\ LET src == SourceRecords(dir, file_date_pairs) IN
         /\ src[1].rec.get["close"] = Num(100) /\ src[1].rec.get["c"] = Num(200)
         /\ src[2].rec.get["close"] = None /\ src[2].rec.get["c"] = Num(200)
    /\ master_candles[1].close = Num(100)
    /\ master_candles[2].close = Num(200)

\* a record that carries a time value and OHLC values
WellFormed(rec) ==
    /\ Resolvable(rec)
    /\ \A kk \in OhlcKeys : rec.get[kk[1]] # None \/ rec.get[kk[2]] # None

\* the raw files of the pair the run was started for, as the run found them
RawEntries == {e \in Entries(dir0) : IsRaw(e.name, ticker, interval)}

\* the raw files are N >= 1 dated files with distinct dates, each a JSON
\* array of the same number of well-formed records
UniformInput ==
    /\ RawEntries # {}
    /\ \A e \in RawEntries :
         /\ HasDate(e.name)
         /\ e.content.kind = "list"
         /\ \A p \in 1..Len(e.content.arr) : WellFormed(e.content.arr[p])
    /\ \A e, f \in RawEntries :
         /\ Len(e.content.arr) = Len(f.content.arr)
         /\ FirstDate(e.name) = FirstDate(f.name) => e = f
RecordsPerFile == Len((CHOOSE e \in RawEntries : TRUE).content.arr)

\* C2: when the raw files of the pair are N dated files with distinct
\* dates, each a JSON array of K well-formed records, the artifact the run
\* has written has total_candles = N*K, N*K candles and
\* source_file_count = N.
C2_Completeness ==
    (pc = "done" /\ output_path # <<>> /\ UniformInput) =>
        /\ output.metadata.total_candles = Cardinality(RawEntries) * RecordsPerFile
        /\ Len(output.candles) = Cardinality(RawEntries) * RecordsPerFile
        /\ output.metadata.source_file_count = Cardinality(RawEntries)

\* a run has written the artifact for three files of two records each
C2_Witness ==
    /\ pc = "done"
    /\ output_path # <<>>
    /\ UniformInput
    /\ Cardinality(RawEntries) = 3
    /\ RecordsPerFile = 2
    /\ Len(output.candles) = 6

\* C3: in every artifact a run has written, the candles are in
\* non-decreasing order of their timestamp.
C3_CandlesSorted ==
    (pc = "done" /\ output_path # <<>>) =>
        \A p, q \in 1..Len(output.candles) :
            p < q => StrLeq(output.candles[p].timestamp, output.candles[q].timestamp)

\* a fragment file that parses and holds a non-empty candle array of
\* objects that all carry a time value
ValidNonEmpty(content) ==
    /\ AllObjects(content)
    /\ candles_of(content) # <<>>
    /\ \A p \in 1..Len(candles_of(content)) : Resolvable(candles_of(content)[p])

\* the files of the pair that discovery lists, as the run found them
DiscoveredEntries == {e \in RawEntries : HasDate(e.name)}

\* the discovered files are unparseable files and valid non-empty files,
\* at least one of each
SomeInvalidSomeValid ==
    /\ \E e \in DiscoveredEntries : e.content.kind = "invalid"
    /\ \E e \in DiscoveredEntries : ValidNonEmpty(e.content)
    /\ \A e \in DiscoveredEntries : e.content.kind = "invalid" \/ ValidNonEmpty(e.content)

\* the discovered files in ascending date order
DatedFiles == SortByDate(PairUp(raw_files(ticker, interval, dir0)))

\* C5: when the discovered files are unparseable files and at least one
\* valid non-empty file, the run ends with exit code 0 and has written an
\* artifact whose candles are the reconstructed records of the valid files,
\* file after file in date order.
C5_SkipUnparseable ==
    (pc = "done" /\ dirExists /\ SomeInvalidSomeValid) =>
        /\ exit_code = 0
        /\ output_path = output_filename(ticker, interval)
        /\ LET src == SourceRecords(dir0, DatedFiles) IN
             /\ Len(output.candles) = Len(src)
             /\ \A p \in 1..Len(src) :
                  output.candles[p] = fixed_candle(src[p].rec, src[p].date)

\* the files a run opens for reading
Opened == {file_date_pairs[p][1] : p \in 1..Len(file_date_pairs)}

\* between the run before and the current one nothing touched the
\* directory but the run before itself: apart from the file it wrote, the
\* entries it found are the entries the current run finds
InputsUnchanged ==
    {e \in Entries(dir0) : e.name # prev.output_path}
      = {e \in Entries(prev.dir0) : e.name # prev.output_path
                                     /\ ~IsDerived(e.name, prev.ticker, prev.interval)}

\* C1: when a run follows a run for the same pair that wrote an artifact,
\* on unchanged fragment files, it writes an artifact of the same name,
\* with the same candles and the same metadata but for generated_at, and it
\* does not open the artifact of the first run.
C1_Idempotent ==
    (pc = "done" /\ prev.ran /\ prev.output_path # <<>>
     /\ prev.ticker = ticker /\ prev.interval = interval /\ InputsUnchanged) =>
        /\ output_path = prev.output_path
        /\ output_path = output_filename(ticker, interval)
        /\ output.ticker = prev.output.ticker
        /\ output.interval = prev.output.interval
        /\ output.candles = prev.output.candles
        /\ [output.metadata EXCEPT !.generated_at = 0]
             = [prev.output.metadata EXCEPT !.generated_at = 0]
        /\ prev.output_path \notin Opened

\* two runs in succession for one pair have each written an artifact of
\* candles from two files, at different times
C1_Witness ==
    /\ pc = "done"
    /\ prev.ran /\ prev.ticker = ticker /\ prev.interval = interval
    /\ InputsUnchanged
    /\ prev.output_path # <<>> /\ output_path # <<>>
    /\ Len(file_date_pairs) >= 2
    /\ Len(output.candles) >= 3
    /\ output.metadata.generated_at # prev.output.metadata.generated_at

\* ---- the shape of a timestamp
\* YYYY-MM-DDTHH:MM:SS followed by a zone marker: Z or (+|-)HH:MM
IsCanonical(ts) ==
    /\ Len(ts) \in {20, 25}
    /\ DateAt(ts, 1)
    /\ ts[11] = "T"
    /\ ClockSeconds(SubSeq(ts, 12, 19)) >= 0
    /\ IF Len(ts) = 20 THEN ts[20] = "Z"
       ELSE ts[20] \in {"+", "-"} /\ ClockSeconds(SubSeq(ts, 21, 25)) >= 0

\* C11: every candle of every artifact a run has written has a timestamp
\* of the form date T HH:MM:SS zone marker, whatever time values the
\* fragment files hold.
C11_CanonicalTimestamps ==
    (pc = "done" /\ output_path # <<>>) =>
        \A p \in 1..Len(output.candles) : IsCanonical(output.candles[p].timestamp)

\* C12: in the artifact a run has written, as it lies in the directory,
\* total_candles is the number of candles in the file, data_start is the
\* timestamp of its first candle and data_end the timestamp of its last.
C12_MetadataAgrees ==
    (pc = "done" /\ output_path # <<>>) =>
        LET a == ContentOf(dir, output_path).art IN
        /\ a.isArt
        /\ a = output
        /\ Len(a.candles) >= 1
        /\ a.metadata.total_candles = Len(a.candles)
        /\ a.metadata.data_start = a.candles[1].timestamp
        /\ a.metadata.data_end = a.candles[Len(a.candles)].timestamp

\* an artifact has been written whose first and last candles differ in
\* time and whose candle count is not its file count
C12_Witness ==
    /\ pc = "done"
    /\ output_path # <<>>
    /\ Len(output.candles) >= 2
    /\ output.metadata.data_start # output.metadata.data_end
    /\ output.metadata.source_file_count # Len(output.candles)

\* ---- raw fragments of any pair
\* the name has the form X_Y_YYYY-MM-DD.json
IsFragmentName(name) ==
    LET n == Len(name)
        stem == SubSeq(name, 1, n - 16)
    IN /\ n >= 19
       /\ EndsWith(name, DotJson)
       /\ DateAt(name, n - 14)
       /\ name[n - 15] = "_"
       /\ \E p \in 2..(Len(stem) - 1) : stem[p] = "_"

\* C14: at every point of a run for (ticker, interval), each file named
\* X_Y_YYYY-MM-DD.json that the run found is in the directory with the
\* content it had, whether the run goes on to succeed or to fail.
C14_RawUntouched ==
    pc # "idle" =>
        \A e \in Entries(dir0) : IsFragmentName(e.name) => e \in Entries(dir)

\* the run found fragments of its own pair and of another pair
FragmentsOfBoth ==
    /\ \E e \in Entries(dir0) : IsFragmentName(e.name) /\ IsRaw(e.name, ticker, interval)
    /\ \E e \in Entries(dir0) : IsFragmentName(e.name)
                                 /\ ~StartsWith(e.name, Prefix(ticker, interval))

\* a run has deleted derived files and written the artifact in a directory
\* with fragments of its own pair and of another pair
C14_Witness ==
    /\ pc = "done"
    /\ exit_code = 0
    /\ output_path # <<>>
    /\ Len(deleted) > 0
    /\ FragmentsOfBoth

\* ---- the day span of the metadata
\* the instant a written timestamp stands for
InstantOf(ts) == fromisoformat(Replace(ts, "Z", <<"+", "0", "0", ":", "0", "0">>)).secs

\* a difference in seconds as whole days, truncated toward zero
TruncDays(secs) == IF secs >= 0 THEN secs \div 86400 ELSE 0 - ((0 - secs) \div 86400)

\* C15: duration_days of the written metadata is data_end minus data_start
\* in days, truncated toward zero, also when data_end is earlier than
\* data_start.
C15_DurationTruncated ==
    (pc = "done" /\ output_path # <<>>) =>
        output.metadata.duration_days
          = TruncDays(InstantOf(output.metadata.data_end)
                        - InstantOf(output.metadata.data_start))

\* C16: source_file_count of the written artifact is the number of raw
\* files of the pair the run found (matching TICKER_INTERVAL_*.json, no
\* marker in the name), dated or not, skipped by the Reconstructor or not.
C16_SourceFileCount ==
    (pc = "done" /\ output_path # <<>>) =>
        output.metadata.source_file_count = Cardinality(RawEntries)

\* C16 as amended: source_file_count of the written artifact is the number
\* of raw files of the pair that carry a date token in their name, whether
\* or not the Reconstructor skipped them; a raw file without a date token
\* is not counted.
C16_DatedFileCount ==
    (pc = "done" /\ output_path # <<>>) =>
        output.metadata.source_file_count = Cardinality(DiscoveredEntries)

\* an artifact has been written from two dated files next to a raw file
\* without a date
C16_Witness ==
    /\ pc = "done"
    /\ output_path # <<>>
    /\ Cardinality(DiscoveredEntries) = 2
    /\ Cardinality(RawEntries) = 3
    /\ output.metadata.source_file_count = 2

\* ---- the artifact of the pair across a failing run
\* the run has ended in one of the fatal-for-item failures that come after
\* sanitation
FailedPastSanitation ==
    /\ pc = "done"
    /\ exit_code # 0
    /\ exit_at \in {"fase_2_discovery", "fase_4_metadata", "traceback"}

C20_NoUnhandledException ==
    pc = "done" =>
        \/ exit_code = 0 /\ exit_at = "end" /\ output_path # <<>>
        \/ exit_code # 0 /\ exit_at \in {"main", "fase_2_discovery", "fase_4_metadata"}

\* ---- the batch orchestrator
\* the combinations of the subprocesses started so far, in starting order
Invoked == [k \in 1..Len(procs) |-> procs[k].combo]

ItemName(combo) == Concat(<<combo[1], <<"_">>, combo[2]>>)

\* C13: the batch starts the pipeline once for every enumerated
\* combination, in order, whatever the earlier ones ended with; when it has
\* finished, success_count + failed_count is the number of combinations
\* and failed_items names exactly the combinations whose invocation did
\* not return exit code 0, in processing order.
C13_OncePerCombination ==
    /\ bpc \in {"loop", "wait", "summary"} =>
         /\ Len(procs) <= Len(data_map)
         /\ Invoked = SubSeq(data_map, 1, Len(procs))
         /\ \A j, k \in 1..Len(procs) : procs[j].combo = procs[k].combo => j = k
    /\ bpc = "summary" =>
         /\ Invoked = data_map
         /\ success_count + failed_count = Len(data_map)
         /\ success_count = Cardinality({k \in 1..Len(procs) : procs[k].state = "exit0"})
         /\ LET failed(pr) == pr.state # "exit0"
                F == SelectSeq(procs, failed)
            IN failed_items = [k \in 1..Len(F) |-> ItemName(F[k].combo)]

\* a batch of three combinations has finished, the first invocation timed
\* out, the second returned 0 and the third returned non-zero
C13_Witness ==
    /\ bpc = "summary"
    /\ Len(procs) = 3
    /\ procs[1].state = "timeout"
    /\ procs[2].state = "exit0"
    /\ procs[3].state = "nonzero"
    /\ failed_items = <<ItemName(<<ADRO, I1m>>), ItemName(<<BBRI, I1m>>)>>

\* C18: at no time are two invocations in progress: every subprocess but
\* the last one started has ended, and the pipeline only runs while the
\* batch waits for it.
C18_OneAtATime ==
    /\ \A k \in 1..(Len(procs) - 1) : procs[k].state # "running"
    /\ pc \in {"fase_1", "fase_2", "fase_3", "fase_4", "fase_5"} =>
         /\ bpc = "wait"
         /\ procs[Len(procs)].state = "running"
    /\ bpc \in {"loop", "summary"} =>
         \A k \in 1..Len(procs) : procs[k].state # "running"

\* the second invocation runs after the first was stopped by its timeout
C18_Witness ==
    /\ bpc = "wait"
    /\ Len(procs) = 2
    /\ procs[1].state = "timeout"
    /\ procs[2].state = "running"
    /\ pc = "fase_3"

\* ---- what the batch enumerates and what the Discoverer serves
Tickers == {ADRO, BBRI}
Intervals == {I1m, I5m, I1d}

Enumerated(t, i) == \E k \in 1..Len(data_map) : data_map[k] = <<t, i>>

\* the Discoverer run for (t, i) on directory d returns at least one file
Served(t, i, d) == fase_2_discovery(t, i, d) # <<>>

\* the scan has just been made: no invocation has touched the directory
JustScanned == bpc = "loop" /\ procs = <<>>

\* an upper-case alphabetic ticker and an interval of digits followed by m or h
ConventionalPair(t, i) ==
    /\ Len(t) >= 1 /\ \A p \in 1..Len(t) : t[p] \in AZ
    /\ Len(i) >= 2 /\ i[Len(i)] \in {"m", "h"}
    /\ \A p \in 1..(Len(i) - 1) : i[p] \in Digits

\* C17: for every directory content the batch enumerates (t, i) exactly
\* when the Discoverer run for t and i returns at least one raw file, and
\* no invocation the batch makes fails with 'no raw files found'.
C17_SameCombinations ==
    /\ JustScanned =>
         \A t \in Tickers, i \in Intervals : Enumerated(t, i) <=> Served(t, i, dir)
    /\ (bpc = "wait" /\ pc = "done") => exit_at # "fase_2_discovery"

\* C17 as amended: the batch enumerates (t, i) exactly when the directory
\* holds a raw file named exactly t_i_YYYY-MM-DD.json with t upper-case
\* alphabetic and i of the form digits followed by m or h; for every
\* combination it enumerates the Discoverer returns at least one raw file,
\* and no invocation the batch makes fails with 'no raw files found'.
C17_EnumeratedAreServed ==
    /\ JustScanned =>
         \A t \in Tickers, i \in Intervals :
            /\ Enumerated(t, i) <=>
                 /\ ConventionalPair(t, i)
                 /\ \E n \in Names(dir) : IsDailyFragment(n, t, i) /\ IsRaw(n, t, i)
            /\ Enumerated(t, i) => Served(t, i, dir)
    /\ JustScanned =>
         \A k \in 1..Len(data_map) :
            data_map[k][1] \in Tickers /\ data_map[k][2] \in Intervals
    /\ (bpc = "wait" /\ pc = "done") => exit_at # "fase_2_discovery"

\* the scan has enumerated ADRO 1m and has left out ADRO 1d and BBRI 1m,
\* for each of which the Discoverer returns a file
C17_Witness ==
    /\ JustScanned
    /\ data_map = <<<<ADRO, I1m>>>>
    /\ Served(ADRO, I1d, dir)
    /\ Served(BBRI, I1m, dir)

\* ------------------------------------------------ reconstruction, file by file
\* the records a file contributes when a file is taken whole or not at all:
\* none when its processing ends in an error (it does not parse, or one of
\* its records is not an object), its resolvable records otherwise
RECURSIVE AtomicRecords(_, _)
AtomicRecords(d, pairs) ==
    IF pairs = <<>> THEN <<>>
    ELSE LET content == ContentOf(d, Head(pairs)[1])
             recs == IF AllObjects(content)
                     THEN SelectSeq(candles_of(content), Resolvable)
                     ELSE <<>>
         IN [p \in 1..Len(recs) |-> [rec |-> recs[p], date |-> Head(pairs)[2]]]
            \o AtomicRecords(d, Tail(pairs))

\* C21: the Reconstructor takes each fragment file whole or not at all: a
\* file whose processing ends in an error (for example because one of its
\* records is not a JSON object) contributes no candle, and every other
\* file contributes one candle for each of its records with a resolvable
\* time value.
C21_FileAtomicity ==
    pc = "fase_4" =>
        LET src == AtomicRecords(dir, file_date_pairs) IN
        /\ Len(master_candles) = Len(src)
        /\ \A p \in 1..Len(src) :
             master_candles[p].timestamp
               = ClaimedTimestamp(ResolvedTime(src[p].rec), src[p].date)

\* ------------------------------------------------- the container keys
ContainerOrder == <<"candles", "data", "klines">>

\* the candle array of a parsed file when the container key is the first
\* one that passes the test of the rule: "present" for a key the object
\* has, "truthy" for a key whose array is not empty
ChosenArray(content, rule) ==
    LET ok(q) == IF rule = "present"
                 THEN content.cont[ContainerOrder[q]].p
                 ELSE content.cont[ContainerOrder[q]].a # <<>>
    IN IF content.kind # "dict" THEN content.arr
       ELSE IF \E q \in 1..3 : ok(q)
            THEN content.cont[ContainerOrder[
                     CHOOSE q \in 1..3 : ok(q) /\ \A r \in 1..(q - 1) : ~ok(r)]].a
            ELSE <<>>

\* the resolvable records of the chosen arrays, file after file
RECURSIVE ChosenRecords(_, _, _)
ChosenRecords(d, pairs, rule) ==
    IF pairs = <<>> THEN <<>>
    ELSE LET content == ContentOf(d, Head(pairs)[1])
             recs == IF content.kind = "invalid" THEN <<>>
                     ELSE SelectSeq(ChosenArray(content, rule), Resolvable)
         IN [p \in 1..Len(recs) |-> [rec |-> recs[p], date |-> Head(pairs)[2]]]
            \o ChosenRecords(d, Tail(pairs), rule)

\* the candles come from the records src, one each, in that order
CandlesFrom(src) ==
    /\ Len(master_candles) = Len(src)
    /\ \A p \in 1..Len(src) :
         master_candles[p].timestamp
           = ClaimedTimestamp(ResolvedTime(src[p].rec), src[p].date)

\* C22 as stated: for a file holding a JSON object the candle array is the
\* one under the first of candles, data, klines that is present; a later
\* key is consulted only when every earlier key is absent.
C22_FirstPresentWins ==
    (pc = "fase_4" /\ PlainFiles) =>
        CandlesFrom(ChosenRecords(dir, file_date_pairs, "present"))

\* C22 amended: the candle array is the one under the first of candles,
\* data, klines whose value is truthy (a non-empty array); a later key is
\* consulted when every earlier key is absent or holds an empty array.
C22_FirstNonEmptyWins ==
    (pc = "fase_4" /\ PlainFiles) =>
        CandlesFrom(ChosenRecords(dir, file_date_pairs, "truthy"))

\* the one discovered file is an object whose candles key is present and
\* empty and whose data key holds a record, and that record has given the
\* one candle
C22_Witness ==
    /\ pc = "fase_4"
    /\ Len(file_date_pairs) = 1
    /\ LET content == ContentOf(dir, file_date_pairs[1][1]) IN
         /\ content.kind = "dict"
         /\ content.cont["candles"] = Arr(<<>>)
         /\ content.cont["data"].a = <<rB>>
    /\ Len(master_candles) = 1
    /\ master_candles[1].timestamp = TS19_093045

\* ------------------------------------------------ records without a time
\* the records of a parsed file that have no truthy time value
Dropped(content) ==
    LET untimed(r) == ~Resolvable(r)
    IN IF content.kind = "invalid" THEN <<>>
       ELSE SelectSeq(candles_of(content), untimed)

\* C23: a record with no truthy value under time, t, timestamp or Time
\* gives no candle and does not stop the remaining records of its file
\* (the candles are those of the resolvable records, one each, in order),
\* and the run keeps a count of the records dropped this way: for every
\* file with such records its report carries their number.
C23_DroppedRecordsCounted ==
    (pc = "fase_4" /\ PlainFiles) =>
        /\ CandlesFrom(SourceRecords(dir, file_date_pairs))
        /\ \A p \in 1..Len(file_date_pairs) :
             LET name == file_date_pairs[p][1]
                 k == Len(Dropped(ContentOf(dir, name)))
             IN k > 0 => \E q \in 1..Len(log) :
                            /\ log[q].kind = "dropped"
                            /\ log[q].name = name
                            /\ log[q].n = k

\* ------------------------------------------------- the master sequence
\* the records of an array up to its first element that is not an object
ObjectPrefix(recs) ==
    LET n == CHOOSE m \in 0..Len(recs) :
                 /\ \A p \in 1..m : recs[p].obj
                 /\ m < Len(recs) => ~recs[m + 1].obj
    IN SubSeq(recs, 1, n)

\* the records each file gave a candle for, file after file in the order of
\* pairs and, within a file, in the order of its array
RECURSIVE ReconstructedRecords(_, _)
ReconstructedRecords(d, pairs) ==
    IF pairs = <<>> THEN <<>>
    ELSE LET content == ContentOf(d, Head(pairs)[1])
             recs == IF content.kind = "invalid" THEN <<>>
                     ELSE SelectSeq(ObjectPrefix(candles_of(content)), Resolvable)
         IN [p \in 1..Len(recs) |-> [rec |-> recs[p], date |-> Head(pairs)[2]]]
            \o ReconstructedRecords(d, Tail(pairs))

\* C24: the master sequence is the concatenation, in the Discoverer's file
\* order, of each file's reconstructed records in the order they have in
\* the file, and it stays so through the later phases: the artifact
\* written holds exactly these candles in this order.
C24_ConcatenationPreserved ==
    (pc \in {"fase_4", "fase_5"} \/ (pc = "done" /\ output_path # <<>>)) =>
        /\ CandlesFrom(ReconstructedRecords(dir0, file_date_pairs))
        /\ pc = "done" =>
             /\ output.candles = master_candles
             /\ ContentOf(dir, output_path).art.candles = master_candles
             /\ ContentOf(dir, output_path).cont["candles"].a
                  = [p \in 1..Len(master_candles) |-> CandleAsObj(master_candles[p])]

\* an artifact has been written from two files, with three candles or
\* more, and a candle in it is earlier than the one before it
C24_Witness ==
    /\ pc = "done"
    /\ output_path # <<>>
    /\ Len(file_date_pairs) >= 2
    /\ Len(output.candles) >= 3
    /\ \E p \in 1..(Len(output.candles) - 1) :
         StrLess(output.candles[p + 1].timestamp, output.candles[p].timestamp)

\* ------------------------------------------------------------- the volume
VolumeKeyOrder == <<"volume", "vol", "Volume", "v">>

\* the first truthy value under the volume aliases, 0 when there is none
ClaimedVolume(rec) ==
    IF \E q \in 1..4 : Truthy(rec.get[VolumeKeyOrder[q]])
    THEN rec.get[VolumeKeyOrder[
             CHOOSE q \in 1..4 :
                 /\ Truthy(rec.get[VolumeKeyOrder[q]])
                 /\ \A r \in 1..(q - 1) : ~Truthy(rec.get[VolumeKeyOrder[r]])]]
    ELSE Num(0)

\* C25: every candle of an artifact a run has written has a volume that is
\* a non-negative integer, namely the first truthy value among the source
\* record's volume, vol, Volume and v, and 0 when all of these are absent
\* or falsy.
C25_VolumeNonNegativeInteger ==
    (pc = "done" /\ output_path # <<>>) =>
        LET src == ReconstructedRecords(dir0, file_date_pairs) IN
        /\ Len(output.candles) = Len(src)
        /\ \A p \in 1..Len(src) :
             /\ output.candles[p].volume = ClaimedVolume(src[p].rec)
             /\ output.candles[p].volume.k = "num"
             /\ output.candles[p].volume.n >= 0

\* ------------------------------------------------- files of the same date
\* two discovered files carry the same date
DateCollision ==
    \E p, q \in 1..Len(file_date_pairs) :
        p # q /\ file_date_pairs[p][2] = file_date_pairs[q][2]

\* C26: when two of the raw files the Discoverer returns carry the same
\* date, the run flags the collision: what it prints holds a warning of a
\* duplicate date that names one of the two files, instead of both files
\* being merged without notice.
C26_DateCollisionFlagged ==
    (pc \in {"fase_3", "fase_4", "fase_5"} /\ DateCollision) =>
        \E p, q \in 1..Len(file_date_pairs) : \E w \in 1..Len(log) :
            /\ p # q
            /\ file_date_pairs[p][2] = file_date_pairs[q][2]
            /\ log[w].kind = "duplicate_date"
            /\ log[w].name \in {file_date_pairs[p][1], file_date_pairs[q][1]}

\* ------------------------------------------------ the alternate flow
\* the name of an artifact of the core pipeline, TICKER_INTERVAL_MERGED.json
IsMergedArtifactName(n) == EndsWith(n, Concat(<<<<"_">>, MERGED, DotJson>>))

\* the name of a file save_merged_file writes,
\* TICKER_INTERVAL_Ndays_(START_END).json
IsAltOutputName(n) == Contains(n, days \o <<"_", "(">>) /\ EndsWith(n, <<")">> \o DotJson)

\* C27: among the dates scan_existing_files lists for a (ticker, interval)
\* there is neither the artifact of the core pipeline,
\* TICKER_INTERVAL_MERGED.json, nor a file the alternate flow itself has
\* written, TICKER_INTERVAL_Ndays_(START_END).json: no listed date is the
\* name of such a file.
C27_ArtifactsNotListed ==
    mpc \in {"loop", "merged", "crashed", "done"} =>
        \A p \in 1..Len(m_data_map) : \A q \in 1..Len(m_data_map[p].dates) :
            LET n == FileName(m_data_map[p].ticker, m_data_map[p].interval,
                              m_data_map[p].dates[q])
            IN ~IsMergedArtifactName(n) /\ ~IsAltOutputName(n)

\* a clock time HH:MM
IsClockTime(v) ==
    /\ v.k = "str" /\ Len(v.s) = 5 /\ v.s[3] = ":"
    /\ \A p \in {1, 2, 4, 5} : v.s[p] \in Digits

\* the entry merge_files has just been called for holds dates only, two or
\* more, and each of its files is an array of records whose time is HH:MM
DailyFilesOnly ==
    LET e == m_data_map[m_next] IN
    /\ Len(e.dates) >= 2
    /\ \A p \in 1..Len(e.dates) :
         /\ strptime_date(e.dates[p]).ok
         /\ LET c == ContentOf(dir, FileName(e.ticker, e.interval, e.dates[p])) IN
              /\ c.kind = "list"
              /\ c.arr # <<>>
              /\ \A q \in 1..Len(c.arr) : c.arr[q].obj /\ IsClockTime(c.arr[q].get["time"])

\* the candles of the daily files of an entry, day after day in the order
\* of the dates and, within a day, in the order of the clock time
Chronological(e) ==
    Concat([p \in 1..Len(e.dates) |->
              SortByKey(ContentOf(dir, FileName(e.ticker, e.interval, e.dates[p])).arr)])

\* C28: for two or more daily files, whose records carry only a clock time
\* HH:MM under the key time, merge_files returns the candles of all the
\* files in chronological order: by the date of the file, then by the time
\* within the day.
C28_MergedChronological ==
    (mpc = "merged" /\ DailyFilesOnly) =>
        merged_data.candles = Chronological(m_data_map[m_next])

\* ------------------------------------------------ the harvested file
\* C29: after any sequence of process_ticker runs, full or incremental, the
\* saved TICKER_full_30days.json holds candles in ascending order of time
\* with no time twice; a run in the incremental branch removes no time
\* that was in the file, and where a downloaded candle has the time of a
\* candle of the file, the candle of the file is kept.
C29_SortedAndKept ==
    /\ hfile.exists =>
         \A p, q \in 1..Len(hfile.data) :
             p < q => StrLess(hfile.data[p].time, hfile.data[q].time)
    /\ (hpc = "ended" /\ h_mode = "incremental") =>
         \A p \in 1..Len(h_before.data) :
             \E q \in 1..Len(hfile.data) : hfile.data[q] = h_before.data[p]

\* an incremental run has ended whose download held a candle of a time of
\* the file with another price, and a candle of a time the file did not
\* have that is earlier than the last candle of the file
C29_Witness ==
    /\ hpc = "ended"
    /\ h_mode = "incremental"
    /\ \E r \in 1..Len(df) : \E p \in 1..Len(h_before.data) :
         /\ strftime_full(df[r].idx) = h_before.data[p].time
         /\ df[r].px # h_before.data[p].close
    /\ \E r \in 1..Len(df) :
         /\ \A p \in 1..Len(h_before.data) : strftime_full(df[r].idx) # h_before.data[p].time
         /\ StrLess(strftime_full(df[r].idx), h_before.data[Len(h_before.data)].time)
    /\ Len(hfile.data) > Len(h_before.data)

\* ------------------------------------------------ the pace of the requests
\* C30: during one run of the Alpha Vantage harvester no HTTP request is
\* sent right after another one, across slices, retries and tickers: a
\* sleep of RATE_LIMIT_DELAY or of RETRY_DELAY lies between any two
\* consecutive requests; and a slice is requested at most MAX_RETRIES + 1
\* times, the call returning None once a rate-limit response has answered
\* the last of them.
C30_SleepBetweenRequests ==
    /\ ~v_unslept
    /\ (vpc = "fetch" /\ v_sent) => v_slept \in {RATE_LIMIT_DELAY, RETRY_DELAY}
    /\ v_tries <= MAX_RETRIES + 1
    /\ (vpc = "answered" /\ v_response = "rate_limit" /\ v_tries = MAX_RETRIES + 1)
         => retry_count >= MAX_RETRIES

====
